---- MODULE Spec2Model ----
(***************************************************************************)
(* A model of migrateC: Scanner, Migrator (with its ResourceMonitor),      *)
(* Cleaner and Linker, translated from src/modules/*.py.                   *)
(*                                                                         *)
(* Each stage object of the program is one record variable whose fields    *)
(* carry the names of the object's attributes (is_running, path_mapping,   *)
(* failed_items, ...) plus a pc field for the position of the thread that  *)
(* runs the stage.  The disk (source paths, destination paths, the mapping *)
(* file, the scan result file, the staging archives) is shared state.      *)
(* Variables whose name ends in _calls are histories of the OS calls the   *)
(* code issues; they are written only, never read by the actions.          *)
(***************************************************************************)
EXTENDS Integers, Sequences, FiniteSets, TLC

VARIABLES
    disk_src,         \* per candidate: what is at its source path
    disk_dst,         \* per candidate: what is at its destination path
    mapping_file,     \* the persisted path mapping artifact
    cleaner,          \* the Cleaner object and the position of clean()
    remove_calls,     \* history: every os.remove / shutil.rmtree call issued
    linker,           \* the Linker object and the position of create_links()
    has_privilege,    \* the elevated-privilege capability of the process
    mklink_calls,     \* history: every mklink call issued
    scan_result_file, \* the scan result artifact the Migrator reads
    free_space,       \* free space of the destination disk, in MB
    space_api,        \* whether psutil.disk_usage can be called
    basename,         \* os.path.basename of each directory candidate
    staging,          \* the archives under temp_path, by file name
    migrator,         \* the Migrator object and the position of migrate()
    task,             \* per candidate: the pool task that migrates it
    monitor,          \* the Migrator's ResourceMonitor
    scanner,          \* the Scanner object and the position of scan()
    scan_task,        \* per scan path: the pool task that walks it
    output_file,      \* the scan result artifact the Scanner writes
    resmon,           \* a ResourceMonitor with its sampling thread and a caller
    worker            \* the WorkerThread of main.py and the stage it is at

diskVars     == <<disk_src, disk_dst, mapping_file>>
cleanerVars  == <<cleaner, remove_calls>>
linkerVars   == <<linker, has_privilege, mklink_calls>>
migratorEnv  == <<scan_result_file, free_space, space_api, basename>>
migratorVars == <<migratorEnv, staging, migrator, task, monitor>>

scannerVars  == <<scanner, scan_task, output_file>>

resmonVars   == <<resmon>>

workerVars   == <<worker>>

vars == <<diskVars, cleanerVars, linkerVars, migratorVars, scannerVars, resmonVars,
         workerVars>>

\* what the actions of one stage leave alone, besides the disk
cleanerFrame  == <<linkerVars, migratorVars, scannerVars, resmonVars, workerVars>>
linkerFrame   == <<cleanerVars, migratorVars, scannerVars, resmonVars, workerVars>>
migratorFrame == <<cleanerVars, linkerVars, scannerVars, resmonVars, workerVars>>
scannerFrame  == <<diskVars, cleanerVars, linkerVars, migratorVars, resmonVars,
                   workerVars>>
resmonFrame   == <<diskVars, cleanerVars, linkerVars, migratorVars, scannerVars,
                   workerVars>>

-----------------------------------------------------------------------------
(* Bounds of the model *)

\* longest mapping file the Cleaner / Linker specifications start from
MaxEntries == 2
\* largest retry_count configured for the Cleaner
MaxRetryCount == 2
\* largest number of 0.5 s polls that fit into check_timeout
MaxCheckPolls == 2
\* largest number of candidates in a scan result the Migrator starts from
MaxCands == 2
\* largest size of the Migrator's thread pool
MaxPool == 2
\* sleeps of wait_for_resources that fit into its timeout
ThrottleTimeout == 1
\* sampling ticks of a ResourceMonitor that are counted
MaxTicks == 2
\* largest number of scan paths configured for the Scanner
MaxRoots == 2
\* largest max_depth configured for a scan path
MaxDepthLimit == 3

-----------------------------------------------------------------------------
(* The candidates and the disk *)

\* Two directory candidates and two file candidates.  A candidate stands for
\* its absolute source path; its destination path is a function of the source
\* path (Migrator._get_relative_path), so a mapping entry is named by its key.
Folders == {"FA", "FB"}
Files   == {"G1", "G2"}
Cands   == Folders \cup Files

IsFolder(c) == c \in Folders

\* What a candidate's data consists of: the files of a directory tree, the
\* 1 MB chunks of a large file, the one piece of a bulk-copied small file.
SrcUnits(c) ==
    CASE c = "FA" -> {"a1", "a2"}
      [] c = "FB" -> {"b1"}
      [] c = "G1" -> {"k1", "k2"}
      [] c = "G2" -> {"w"}

AllUnits == UNION {SrcUnits(c) : c \in Cands}

\* the order in which a directory listing or a file yields its units
UnitOrder == <<"a1", "a2", "b1", "k1", "k2", "w">>
Before(u, v) ==
    \E i, j \in 1..Len(UnitOrder) : i < j /\ UnitOrder[i] = u /\ UnitOrder[j] = v

\* the file names of the staging archives: <basename>.zip
StagingNames == {"data", "FA", "FB"}

\* A persisted artifact is a record: whether the file can be read, and its
\* content.  The mapping file holds the keys of the mapping in dict order.
NoFile == [exists |-> FALSE, path_mapping |-> <<>>]
MappingFile(keys) == [exists |-> TRUE, path_mapping |-> keys]

SrcStates == {"absent", "present", "link"}
DstStates == [exists : BOOLEAN, units : SUBSET AllUnits]

DstAbsent == [exists |-> FALSE, units |-> {}]

\* os.path.exists(target_path)
TargetExists(c) == disk_dst[c].exists

\* os.path.exists(source_path): follows a link to the destination
SourceExists(c) ==
    \/ disk_src[c] = "present"
    \/ disk_src[c] = "link" /\ TargetExists(c)

\* os.path.isfile(source_path): follows a link as well
SourceIsFile(c) == ~IsFolder(c) /\ SourceExists(c)

\* the destination holds every unit of the source's data
Complete(c) == disk_dst[c].exists /\ SrcUnits(c) \subseteq disk_dst[c].units

Range(s) == {s[i] : i \in 1..Len(s)}

NoDup(s) == \A i, j \in 1..Len(s) : s[i] = s[j] => i = j

\* the sequences without repetition over S, of length at most n
InjSeqs(S, n) == {s \in UNION {[1..k -> S] : k \in 0..n} : NoDup(s)}

\* Linker.__init__; check_timeout is counted in polls of 0.5 s
LinkerNew(polls) ==
    [pc              |-> "init",
     check_polls     |-> polls,
     path_mapping    |-> <<>>,
     total_links     |-> 0,
     processed_links |-> 0,
     is_running      |-> TRUE,
     failed_links    |-> <<>>,
     idx             |-> 1,      \* position of the for loop of create_links()
     polls           |-> 0,      \* passes of the while loop of _check_link
     result          |-> "none"]

-----------------------------------------------------------------------------
(* The scanned tree and the objects of the Scanner (src/modules/scanner.py) *)

\* A path is the sequence of its components.  Every name of the tree is one
\* character long, so str.startswith on two paths of the tree is the prefix
\* relation on their components.
StartsWith(path, base_path) ==
    /\ Len(base_path) <= Len(path)
    /\ SubSeq(path, 1, Len(base_path)) = base_path

\* the directories of the scanned tree
TreeDirs ==
    {<<"r">>, <<"r", "a">>, <<"r", "a", "b">>, <<"r", "a", "b", "c">>,
     <<"r", "x">>, <<"r", "x", "d">>}

\* what os.walk yields for a directory: its dirs and its files, in order
Listing(root) ==
    CASE root = <<"r">>                -> [dirs |-> <<"a", "x">>, files |-> <<"f">>]
      [] root = <<"r", "a">>           -> [dirs |-> <<"b">>,      files |-> <<"g">>]
      [] root = <<"r", "a", "b">>      -> [dirs |-> <<"c">>,      files |-> <<"h">>]
      [] root = <<"r", "a", "b", "c">> -> [dirs |-> <<>>,         files |-> <<"i">>]
      [] root = <<"r", "x">>           -> [dirs |-> <<"d">>,      files |-> <<"j">>]
      [] root = <<"r", "x", "d">>      -> [dirs |-> <<>>,         files |-> <<"k">>]

\* os.path.getsize of a file, by its name
FileSize(file_name) ==
    CASE file_name = "f" -> 6
      [] file_name = "g" -> 6
      [] file_name = "h" -> 3
      [] file_name = "i" -> 6
      [] file_name = "j" -> 6
      [] file_name = "k" -> 3

\* the paths of the files of the tree
TreeFiles ==
    UNION {{Append(d, Listing(d).files[i]) : i \in 1..Len(Listing(d).files)} :
              d \in TreeDirs}

RECURSIVE SumFiles(_)
SumFiles(S) ==
    IF S = {} THEN 0
    ELSE LET f == CHOOSE x \in S : TRUE
         IN  FileSize(f[Len(f)]) + SumFiles(S \ {f})

\* _get_folder_size: the sizes of all files that os.walk finds below the
\* folder, whatever the names of the directories on the way
GetFolderSize(folder_path) ==
    SumFiles({f \in TreeFiles : StartsWith(f, folder_path)})

\* max_depth = None
NoDepth == -1

\* the scan paths of a configuration: path, max_depth, exclude_folders
ScanPathConfigs ==
    [path            : {<<"r">>, <<"r", "a">>},
     max_depth       : {NoDepth} \cup (1..MaxDepthLimit),
     exclude_folders : {{}, {"x"}}]

\* the scan_paths lists: up to MaxRoots scan paths, no path twice
ScanPathLists ==
    {l \in UNION {[1..n -> ScanPathConfigs] : n \in 1..MaxRoots} :
        \A i, j \in 1..Len(l) : l[i].path = l[j].path => i = j}

\* the size thresholds of a configuration
SizeThresholds == {4, 7}

\* Scanner.__init__
ScannerNew(paths, threshold, exclude, threads) ==
    [pc                     |-> "init",
     scan_paths             |-> paths,
     size_threshold         |-> threshold,
     max_threads            |-> threads,
     global_exclude_folders |-> exclude,
     large_folders          |-> <<>>,
     large_files            |-> <<>>,
     total_folders          |-> 0,
     processed_folders      |-> 0,
     is_running             |-> TRUE,
     i                      |-> 1,      \* position of the loop of scan()
     result                 |-> "none"]

\* a pool task of the Scanner: walk holds the directories os.walk has still
\* to yield, the next one first
ScanTaskNew == [pc |-> "none", walk |-> <<>>]

NoOutput == [exists |-> FALSE, large_folders |-> <<>>, large_files |-> <<>>]

ScannerIdle ==
    /\ scanner = ScannerNew(<<>>, 4, {}, 1)
    /\ scan_task = [k \in 1..MaxRoots |-> ScanTaskNew]
    /\ output_file = NoOutput

-----------------------------------------------------------------------------
(* The objects of the Migrator (src/modules/migrator.py) and of its
   ResourceMonitor (src/modules/resource_monitor.py) *)

\* the 'size' field of a candidate's entry in the scan result, in MB
Size(c) ==
    CASE c = "FA" -> 50
      [] c = "FB" -> 25
      [] c = "G1" -> 25
      [] c = "G2" -> 5

\* files above 10 MB are copied in chunks, smaller ones by shutil.copy2
ChunkedCopyAbove == 10

\* ResourceMonitor.memory_limit, in percent
memory_limit == 50

\* the memory usage a sampling tick can find, in percent
MemoryLevels == {20, 50, 90}

\* the free space the destination disk can have, in MB
FreeSpaces == {20, 21, 200}

\* the free space of the runs in which it is not measured
SmallestFree == CHOOSE n \in FreeSpaces : \A m \in FreeSpaces : n <= m

NoScanResult == [exists |-> FALSE, large_folders |-> <<>>, large_files |-> <<>>]

\* the scan results migrate() can be started on
ScanResults ==
    {NoScanResult} \cup
    {[exists |-> TRUE, large_folders |-> fs, large_files |-> gs] :
        <<fs, gs>> \in {x \in InjSeqs(Folders, MaxCands) \X InjSeqs(Files, MaxCands) :
                           Len(x[1]) + Len(x[2]) <= MaxCands}}

\* the candidates in the order migrate() submits them
Candidates == scan_result_file.large_folders \o scan_result_file.large_files

RECURSIVE SumSize(_)
SumSize(cs) == IF cs = <<>> THEN 0 ELSE Size(Head(cs)) + SumSize(Tail(cs))

\* the units of a set in the order of a directory listing
RECURSIVE SeqOf(_)
SeqOf(S) ==
    IF S = {} THEN <<>>
    ELSE LET u == CHOOSE x \in S : \A y \in S : x = y \/ ~Before(y, x)
         IN  <<u>> \o SeqOf(S \ {u})

\* what os.walk / open find at a source path: a link leads to the destination
SourceContent(c) ==
    IF disk_src[c] = "link" THEN disk_dst[c].units ELSE SrcUnits(c)

NoArchive == [exists |-> FALSE, entries |-> {}]

\* Migrator.__init__
MigratorNew ==
    [pc                |-> "init",
     is_running        |-> TRUE,
     path_mapping      |-> <<>>,
     total_folders     |-> 0,
     processed_folders |-> 0,
     checks            |-> 0,     \* calls of _check_disk_space that passed
     i                 |-> 1,     \* position of the two submission loops
     waited            |-> 0,     \* sleeps of the current wait_for_resources
     max_workers       |-> 0,     \* size of the ThreadPoolExecutor
     saved             |-> FALSE, \* _save_mapping wrote the mapping file
     sink              |-> <<>>,  \* the last value passed to progress_callback
     result            |-> "none"]

\* a pool task: not submitted, queued, at a step of its function, or done
\* errors: an exception for one file of the tree was logged and passed over
\* total, processed: total_files and processed_files of the loop the task is in
TaskNew ==
    [pc |-> "none", todo |-> <<>>, errors |-> FALSE, outcome |-> "none",
     total |-> 0, processed |-> 0]

\* ResourceMonitor.__init__
MonitorNew(psutil, threads) ==
    [is_running           |-> FALSE,
     psutil               |-> psutil,   \* PSUTIL_AVAILABLE
     current_memory_usage |-> 0,
     max_threads          |-> threads]  \* max(1, int(cpu_count * cpu_limit))

\* max(lo, min(hi, x))
Clamp(x, lo, hi) == IF x < lo THEN lo ELSE IF x > hi THEN hi ELSE x

\* max(1, int(cpu_count * share)), the share in percent
ThreadsFor(cpu_count, share) ==
    IF (cpu_count * share) \div 100 < 1 THEN 1 ELSE (cpu_count * share) \div 100

\* ResourceMonitor.__init__ on its own: cpu_limit is clamped to 0.1..1.0;
\* fractions are held in percent.  call is the last call of the caller:
\* the method, its return value and the sleeps it made.
NoCall == [op |-> "none", result |-> FALSE, sleeps |-> 0]
ResmonNew(psutil, cpu_count, cpu_limit) ==
    [is_running           |-> FALSE,
     psutil               |-> psutil,    \* PSUTIL_AVAILABLE
     cpu_limit            |-> Clamp(cpu_limit, 10, 100),
     cpu_count            |-> cpu_count, \* multiprocessing.cpu_count()
     current_cpu_usage    |-> 0,
     process_cpu          |-> 0,         \* process.cpu_percent of the last tick
     current_memory_usage |-> 0,
     max_threads          |-> ThreadsFor(cpu_count, Clamp(cpu_limit, 10, 100)),
     ticks                |-> 0,         \* completed calls of _update_resource_usage
     waiting              |-> FALSE,     \* the caller is inside wait_for_resources
     waited               |-> 0,         \* sleeps of the current wait_for_resources
     call                 |-> NoCall]

ResmonIdle == resmon = ResmonNew(FALSE, 1, 50)

\* no WorkerThread: the stage object is driven by its caller
NoWorker ==
    [pc |-> "idle", task_type |-> "none", stage |-> "none",
     is_running |-> FALSE, failed |-> FALSE, signal |-> "none"]
WorkerIdle == worker = NoWorker

MigratorIdle ==
    /\ scan_result_file = NoScanResult
    /\ free_space = 200
    /\ space_api = "ok"
    /\ basename = [c \in Folders |-> c]
    /\ staging = [n \in StagingNames |-> NoArchive]
    /\ migrator = MigratorNew
    /\ task = [c \in Cands |-> TaskNew]
    /\ monitor = MonitorNew(FALSE, 1)

-----------------------------------------------------------------------------
(* Cleaner (src/modules/cleaner.py) *)

\* Cleaner.__init__
CleanerNew(rc) ==
    [pc              |-> "init",
     retry_count     |-> rc,
     path_mapping    |-> <<>>,
     total_items     |-> 0,
     processed_items |-> 0,
     is_running      |-> TRUE,
     failed_items    |-> <<>>,
     idx             |-> 1,      \* position of the for loop of clean()
     attempt         |-> 0,      \* loop variable of _remove_*_with_retry
     sleeps          |-> 0,      \* time.sleep(retry_interval) calls for the entry
     result          |-> "none"]

\* the entry the for loop of clean() is at
CleanerEntry == cleaner.path_mapping[cleaner.idx]

\* CleanBranch without the check of the destination
CleanBranchNoTargetCheck(c) ==
    IF ~SourceExists(c) THEN "skip" ELSE "remove"

\* The two checks that open _clean_file and _clean_folder: which way the
\* entry goes.
CleanBranch(c) ==
    IF ~SourceExists(c) THEN "skip"
    ELSE IF ~TargetExists(c) THEN "failed"
    ELSE "remove"

\* os.remove for what os.path.isfile reports a file, shutil.rmtree otherwise
RemoveOp(c) == IF SourceIsFile(c) THEN "os.remove" ELSE "shutil.rmtree"

\* What a delete call can do.  shutil.rmtree refuses a symbolic link with an
\* OSError; every other call succeeds, hits a lock (PermissionError) or fails
\* with another error.
RemoveOutcomes(c) ==
    IF RemoveOp(c) = "shutil.rmtree" /\ disk_src[c] = "link"
    THEN {"error"}
    ELSE {"ok", "permission", "error"}

RemoveCall(c) ==
    [path |-> c, op |-> RemoveOp(c), source |-> disk_src[c],
     target_exists |-> TargetExists(c), complete |-> Complete(c)]

\* the end of one pass of the for loop of clean(): the progress update
CleanerAdvance(cl) ==
    [cl EXCEPT !.processed_items = @ + 1, !.idx = @ + 1, !.pc = "loop",
               !.attempt = 0, !.sleeps = 0]

\* clean(), up to the for loop
CleanerLoad ==
    /\ cleaner.pc = "init"
    /\ IF ~mapping_file.exists
       THEN cleaner' = [cleaner EXCEPT !.pc = "done", !.result = FALSE]
       ELSE IF Len(mapping_file.path_mapping) = 0
       THEN cleaner' = [cleaner EXCEPT !.pc = "done", !.result = TRUE,
                                       !.path_mapping = mapping_file.path_mapping]
       ELSE cleaner' = [cleaner EXCEPT !.pc = "loop",
                                       !.path_mapping = mapping_file.path_mapping,
                                       !.total_items = Len(mapping_file.path_mapping)]
    /\ UNCHANGED <<diskVars, remove_calls, cleanerFrame>>

\* one pass of the for loop, up to the call of _remove_*_with_retry
CleanerCheck ==
    /\ cleaner.pc = "loop"
    /\ cleaner.idx <= cleaner.total_items
    /\ cleaner.is_running
    /\ LET c == CleanerEntry
       IN  CASE CleanBranch(c) = "skip" ->
                    cleaner' = CleanerAdvance(cleaner)
             [] CleanBranch(c) = "failed" ->
                    cleaner' = CleanerAdvance(
                        [cleaner EXCEPT !.failed_items = Append(@, c)])
             [] CleanBranch(c) = "remove" ->
                    cleaner' = [cleaner EXCEPT !.pc = "retry", !.attempt = 0]
    /\ UNCHANGED <<diskVars, remove_calls, cleanerFrame>>

\* _remove_*_with_retry returns False: the entry is recorded as failed
CleanerGiveUp ==
    /\ cleaner.pc = "retry"
    /\ cleaner.attempt >= cleaner.retry_count
    /\ cleaner' = CleanerAdvance(
           [cleaner EXCEPT !.failed_items = Append(@, CleanerEntry)])
    /\ UNCHANGED <<diskVars, remove_calls, cleanerFrame>>

\* CleanerAfterFailure with a wait after every attempt, the last included
CleanerAfterFailureAlwaysSleeps(cl) ==
    [cl EXCEPT !.attempt = @ + 1, !.sleeps = @ + 1]

\* what follows a failed attempt: the wait unless it was the last attempt
CleanerAfterFailure(cl) ==
    [cl EXCEPT !.attempt = @ + 1,
               !.sleeps = IF cl.attempt < cl.retry_count - 1 THEN @ + 1 ELSE @]

\* one pass of the retry loop, up to the outcome of its delete: the return
\* of True, the handler of PermissionError, or the handler of any other
\* exception with its wait
CleanerAttempt ==
    /\ cleaner.pc = "retry"
    /\ cleaner.attempt < cleaner.retry_count
    /\ LET c == CleanerEntry
       IN  /\ remove_calls' = remove_calls \cup {RemoveCall(c)}
           /\ \E outcome \in RemoveOutcomes(c) :
                CASE outcome = "ok" ->
                       /\ disk_src' = [disk_src EXCEPT ![c] = "absent"]
                       /\ cleaner' = CleanerAdvance(cleaner)
                  [] outcome = "permission" ->
                       /\ disk_src' = disk_src
                       /\ cleaner' = [cleaner EXCEPT !.pc = "locked"]
                  [] outcome = "error" ->
                       /\ disk_src' = disk_src
                       /\ cleaner' = CleanerAfterFailure(cleaner)
    /\ UNCHANGED <<disk_dst, mapping_file, cleanerFrame>>

\* CleanerKill that waits retry_interval before the second delete
CleanerKillWaitsFirst ==
    /\ cleaner.pc = "locked"
    /\ \E killed \in BOOLEAN :
          cleaner' = IF killed
                     THEN [cleaner EXCEPT !.pc = "second", !.sleeps = @ + 1]
                     ELSE [CleanerAfterFailure(cleaner) EXCEPT !.pc = "retry"]
    /\ UNCHANGED <<diskVars, remove_calls, cleanerFrame>>

\* the handler of PermissionError: _kill_processes_using_file / _folder;
\* when it returns False the handler goes on to its wait
CleanerKill ==
    /\ cleaner.pc = "locked"
    /\ \E killed \in BOOLEAN :
          cleaner' = IF killed
                     THEN [cleaner EXCEPT !.pc = "second"]
                     ELSE [CleanerAfterFailure(cleaner) EXCEPT !.pc = "retry"]
    /\ UNCHANGED <<diskVars, remove_calls, cleanerFrame>>

\* the second delete of the handler, after the processes were ended: the
\* return of True, or its exception logged and the handler's wait
CleanerRetryNow ==
    /\ cleaner.pc = "second"
    /\ LET c == CleanerEntry
       IN  /\ remove_calls' = remove_calls \cup {RemoveCall(c)}
           /\ \E second_ok \in BOOLEAN :
                IF second_ok
                THEN /\ disk_src' = [disk_src EXCEPT ![c] = "absent"]
                     /\ cleaner' = CleanerAdvance(cleaner)
                ELSE /\ disk_src' = disk_src
                     /\ cleaner' = [CleanerAfterFailure(cleaner) EXCEPT !.pc = "retry"]
    /\ UNCHANGED <<disk_dst, mapping_file, cleanerFrame>>

\* CleanerFinish with a result that ignores the failed list
CleanerFinishIgnoresFailed ==
    /\ cleaner.pc = "loop"
    /\ cleaner.idx > cleaner.total_items \/ ~cleaner.is_running
    /\ cleaner' = [cleaner EXCEPT !.pc = "done", !.result = cleaner.is_running]
    /\ UNCHANGED <<diskVars, remove_calls, cleanerFrame>>

\* CleanerFinish with a mapping file rewritten to the entries that failed
CleanerFinishPrunesMapping ==
    /\ cleaner.pc = "loop"
    /\ cleaner.idx > cleaner.total_items \/ ~cleaner.is_running
    /\ cleaner' = [cleaner EXCEPT
           !.pc = "done",
           !.result = IF cleaner.is_running
                      THEN Len(cleaner.failed_items) = 0
                      ELSE FALSE]
    /\ mapping_file' = [mapping_file EXCEPT !.path_mapping = cleaner.failed_items]
    /\ UNCHANGED <<disk_src, disk_dst, remove_calls, cleanerFrame>>

\* clean(), after the for loop
CleanerFinish ==
    /\ cleaner.pc = "loop"
    /\ cleaner.idx > cleaner.total_items \/ ~cleaner.is_running
    /\ cleaner' = [cleaner EXCEPT
           !.pc = "done",
           !.result = IF cleaner.is_running
                      THEN Len(cleaner.failed_items) = 0
                      ELSE FALSE]
    /\ UNCHANGED <<diskVars, remove_calls, cleanerFrame>>

\* Cleaner.stop(), from another thread
CleanerStop ==
    /\ cleaner.pc # "done"
    /\ cleaner.is_running
    /\ cleaner' = [cleaner EXCEPT !.is_running = FALSE]
    /\ UNCHANGED <<diskVars, remove_calls, cleanerFrame>>

NextCleaner ==
    \/ CleanerLoad
    \/ CleanerCheck
    \/ CleanerAttempt
    \/ CleanerKill
    \/ CleanerRetryNow
    \/ CleanerGiveUp
    \/ CleanerFinish
    \/ CleanerStop

\* the disks and mapping files a clean or link stage can be started on:
\* every mapped entry in any state of its source and destination paths
EntryStates == SrcStates \X {"absent", "empty", "complete"}

DstOf(c, d) ==
    CASE d = "absent"   -> DstAbsent
      [] d = "empty"    -> [exists |-> TRUE, units |-> {}]
      [] d = "complete" -> [exists |-> TRUE, units |-> SrcUnits(c)]

StageInputs ==
    \E m \in {NoFile} \cup {MappingFile(k) : k \in InjSeqs(Cands, MaxEntries)} :
      LET keys == Range(m.path_mapping)
      IN  \E st \in [keys -> EntryStates] :
            /\ mapping_file = m
            /\ disk_src = [c \in Cands |->
                             IF c \in keys THEN st[c][1] ELSE "present"]
            /\ disk_dst = [c \in Cands |->
                             IF c \in keys THEN DstOf(c, st[c][2]) ELSE DstAbsent]

InitCleaner ==
    /\ StageInputs
    /\ cleaner \in {CleanerNew(rc) : rc \in 0..MaxRetryCount}
    /\ remove_calls = {}
    /\ linker = LinkerNew(1)
    /\ has_privilege = TRUE
    /\ mklink_calls = {}
    /\ MigratorIdle
    /\ ScannerIdle
    /\ ResmonIdle
    /\ WorkerIdle

SpecCleaner == InitCleaner /\ [][NextCleaner]_vars

\* C1: every delete call (os.remove or shutil.rmtree, first try or the retry
\* after a forced termination) that clean() issues on a source path is
\* issued while the mapped destination path exists.
C1_NoRemoveWithoutTarget ==
    \A call \in remove_calls : call.target_exists

\* C1's case: clean() has finished, it issued a delete for one entry, and
\* another entry whose destination is missing still has its source and is
\* in the failed list.
C1_Witness ==
    /\ cleaner.pc = "done"
    /\ remove_calls # {}
    /\ \E i \in 1..Len(cleaner.path_mapping) :
          LET c == cleaner.path_mapping[i]
          IN  /\ ~TargetExists(c)
              /\ disk_src[c] = "present"
              /\ c \in Range(cleaner.failed_items)
              /\ \A call \in remove_calls : call.path # c

-----------------------------------------------------------------------------
(* Linker (src/modules/linker.py) *)

\* Linker._is_admin: the privilege capability the caller supplies
IsAdmin == has_privilege

\* the entry the for loop of create_links() is at
LinkerEntry == linker.path_mapping[linker.idx]

\* LinkBranch without the check of the source
LinkBranchNoSourceCheck(c) ==
    IF ~TargetExists(c) THEN "failed" ELSE "link"

\* LinkBranch that never reaches _create_symlink
LinkBranchNeverLinks(c) ==
    IF SourceExists(c) THEN "skip" ELSE "failed"

\* LinkBranch that counts an existing source as a failure
LinkBranchSkipIsFailure(c) ==
    IF SourceExists(c) \/ ~TargetExists(c) THEN "failed" ELSE "link"

\* The two checks that open _create_link: which way the entry goes.
LinkBranch(c) ==
    IF SourceExists(c) THEN "skip"
    ELSE IF ~TargetExists(c) THEN "failed"
    ELSE "link"

MklinkCall(c) ==
    [path |-> c, source |-> disk_src[c], source_exists |-> SourceExists(c),
     target_exists |-> TargetExists(c)]

\* the end of one pass of the for loop of create_links()
LinkerAdvance(ln) ==
    [ln EXCEPT !.processed_links = @ + 1, !.idx = @ + 1, !.pc = "loop",
               !.polls = 0]

\* LinkerLoad without the check of the privilege
LinkerLoadNoAdminCheck ==
    /\ linker.pc = "init"
    /\ IF ~mapping_file.exists
       THEN linker' = [linker EXCEPT !.pc = "done", !.result = FALSE]
       ELSE IF Len(mapping_file.path_mapping) = 0
       THEN linker' = [linker EXCEPT !.pc = "done", !.result = TRUE,
                                     !.path_mapping = mapping_file.path_mapping]
       ELSE linker' = [linker EXCEPT !.pc = "loop",
                                     !.path_mapping = mapping_file.path_mapping,
                                     !.total_links = Len(mapping_file.path_mapping)]
    /\ UNCHANGED <<diskVars, has_privilege, mklink_calls, linkerFrame>>

\* create_links(), up to the for loop
LinkerLoad ==
    /\ linker.pc = "init"
    /\ IF ~IsAdmin \/ ~mapping_file.exists
       THEN linker' = [linker EXCEPT !.pc = "done", !.result = FALSE]
       ELSE IF Len(mapping_file.path_mapping) = 0
       THEN linker' = [linker EXCEPT !.pc = "done", !.result = TRUE,
                                     !.path_mapping = mapping_file.path_mapping]
       ELSE linker' = [linker EXCEPT !.pc = "loop",
                                     !.path_mapping = mapping_file.path_mapping,
                                     !.total_links = Len(mapping_file.path_mapping)]
    /\ UNCHANGED <<diskVars, has_privilege, mklink_calls, linkerFrame>>

\* _create_link for an entry that is skipped or has no destination
LinkerCheck ==
    /\ linker.pc = "loop"
    /\ linker.idx <= linker.total_links
    /\ linker.is_running
    /\ LinkBranch(LinkerEntry) # "link"
    /\ linker' = IF LinkBranch(LinkerEntry) = "skip"
                 THEN LinkerAdvance(linker)
                 ELSE LinkerAdvance(
                          [linker EXCEPT !.failed_links = Append(@, LinkerEntry)])
    /\ UNCHANGED <<diskVars, has_privilege, mklink_calls, linkerFrame>>

\* _create_link, _create_symlink: mklink /D source target.  mklink refuses a
\* path that exists; otherwise it creates the link or fails.
LinkerCreate ==
    /\ linker.pc = "loop"
    /\ linker.idx <= linker.total_links
    /\ linker.is_running
    /\ LinkBranch(LinkerEntry) = "link"
    /\ LET c == LinkerEntry
       IN  /\ mklink_calls' = mklink_calls \cup {MklinkCall(c)}
           /\ \E created \in IF disk_src[c] = "absent" THEN BOOLEAN ELSE {FALSE} :
                IF created
                THEN /\ disk_src' = [disk_src EXCEPT ![c] = "link"]
                     /\ linker' = [linker EXCEPT !.pc = "check", !.polls = 0]
                ELSE /\ disk_src' = disk_src
                     /\ linker' = LinkerAdvance(
                            [linker EXCEPT !.failed_links = Append(@, c)])
    /\ UNCHANGED <<disk_dst, mapping_file, has_privilege, linkerFrame>>

\* one pass of the while loop of _check_link: the filesystem reports the
\* path as a symlink directory, or the loop sleeps 0.5 s.  os.path.isdir is
\* false for a link whose destination is a file, so such a link is never
\* reported.
LinkerPoll ==
    /\ linker.pc = "check"
    /\ linker.polls < linker.check_polls
    /\ \E reported \in IF IsFolder(LinkerEntry) THEN BOOLEAN ELSE {FALSE} :
          linker' = IF reported
                    THEN LinkerAdvance(linker)
                    ELSE [linker EXCEPT !.polls = @ + 1]
    /\ UNCHANGED <<diskVars, has_privilege, mklink_calls, linkerFrame>>

\* LinkerTimeout that does not record the entry
LinkerTimeoutNotRecorded ==
    /\ linker.pc = "check"
    /\ linker.polls >= linker.check_polls
    /\ linker' = LinkerAdvance(linker)
    /\ UNCHANGED <<diskVars, has_privilege, mklink_calls, linkerFrame>>

\* _check_link returns False: check_timeout has elapsed
LinkerTimeout ==
    /\ linker.pc = "check"
    /\ linker.polls >= linker.check_polls
    /\ linker' = LinkerAdvance(
           [linker EXCEPT !.failed_links = Append(@, LinkerEntry)])
    /\ UNCHANGED <<diskVars, has_privilege, mklink_calls, linkerFrame>>

\* LinkerFinish that returns True whatever failed_links holds
LinkerFinishIgnoresFailed ==
    /\ linker.pc = "loop"
    /\ linker.idx > linker.total_links \/ ~linker.is_running
    /\ linker' = [linker EXCEPT !.pc = "done", !.result = linker.is_running]
    /\ UNCHANGED <<diskVars, has_privilege, mklink_calls, linkerFrame>>

\* create_links(), after the for loop
LinkerFinish ==
    /\ linker.pc = "loop"
    /\ linker.idx > linker.total_links \/ ~linker.is_running
    /\ linker' = [linker EXCEPT
           !.pc = "done",
           !.result = IF linker.is_running
                      THEN Len(linker.failed_links) = 0
                      ELSE FALSE]
    /\ UNCHANGED <<diskVars, has_privilege, mklink_calls, linkerFrame>>

\* Linker.stop(), from another thread
LinkerStop ==
    /\ linker.pc # "done"
    /\ linker.is_running
    /\ linker' = [linker EXCEPT !.is_running = FALSE]
    /\ UNCHANGED <<diskVars, has_privilege, mklink_calls, linkerFrame>>

NextLinker ==
    \/ LinkerLoad
    \/ LinkerCheck
    \/ LinkerCreate
    \/ LinkerPoll
    \/ LinkerTimeout
    \/ LinkerFinish
    \/ LinkerStop

InitLinker ==
    /\ StageInputs
    /\ linker \in {LinkerNew(n) : n \in 0..MaxCheckPolls}
    /\ has_privilege \in BOOLEAN
    /\ mklink_calls = {}
    /\ cleaner = CleanerNew(0)
    /\ remove_calls = {}
    /\ MigratorIdle
    /\ ScannerIdle
    /\ ResmonIdle
    /\ WorkerIdle

SpecLinker == InitLinker /\ [][NextLinker]_vars

\* C3: every mklink call that create_links() issues is issued at a source
\* path that does not exist at that moment.
C3_NoLinkOverExistingSource ==
    \A call \in mklink_calls : ~call.source_exists

\* C3's case: create_links() has finished, it created a link for one entry
\* and skipped another entry whose source path exists.
C3_Witness ==
    /\ linker.pc = "done"
    /\ \E call \in mklink_calls : disk_src[call.path] = "link"
    /\ \E i \in 1..Len(linker.path_mapping) :
          LET c == linker.path_mapping[i]
          IN  /\ disk_src[c] = "present"
              /\ \A call \in mklink_calls : call.path # c

-----------------------------------------------------------------------------
(* Migrator.migrate() and the pool tasks (src/modules/migrator.py) *)

\* _check_disk_space without the 20 % safety margin
CheckDiskSpaceNoMargin ==
    IF space_api = "ok"
    THEN ~(free_space * 100 < SumSize(Candidates) * 70)
    ELSE TRUE

\* _check_disk_space: free_space < total_size * 0.7 * 1.2 fails the check;
\* without psutil (ImportError), or when disk_usage raises, the check passes
CheckDiskSpace ==
    IF space_api = "ok"
    THEN ~(free_space * 100 < SumSize(Candidates) * 84)
    ELSE TRUE

\* ResourceMonitor.should_throttle
ShouldThrottleOf(m) ==
    m.psutil /\ m.current_memory_usage > memory_limit

ShouldThrottle == ShouldThrottleOf(monitor)

\* ResourceMonitor.stop_monitoring
StopMonitoring == [monitor EXCEPT !.is_running = FALSE]

\* a return of migrate() that leaves the monitor as it is
MigrateReturnKeepsMonitor(r) ==
    /\ migrator' = [migrator EXCEPT !.pc = "done", !.result = r]
    /\ monitor' = monitor

\* migrate() returns r on a path that stops the monitor
MigrateReturn(r) ==
    /\ migrator' = [migrator EXCEPT !.pc = "done", !.result = r]
    /\ monitor' = StopMonitoring

\* migrate(), up to the load of the scan result; an exception (makedirs)
\* is caught by the outer handler
MigrateStart ==
    /\ migrator.pc = "init"
    /\ \E dirs_ok \in BOOLEAN :
          IF dirs_ok /\ scan_result_file.exists
          THEN /\ migrator' = [migrator EXCEPT !.pc = "space"]
               /\ monitor' = [monitor EXCEPT !.is_running = TRUE]
          ELSE MigrateReturn(FALSE)
    /\ UNCHANGED <<diskVars, migratorEnv, staging, task, migratorFrame>>

\* the two calls of _check_disk_space, then the candidate count, the first
\* progress update and the pool
MigrateCheckSpace ==
    /\ migrator.pc = "space"
    /\ IF ~CheckDiskSpace
       THEN MigrateReturn(FALSE)
       ELSE IF migrator.checks = 0
       THEN /\ migrator' = [migrator EXCEPT !.checks = 1]
            /\ monitor' = monitor
       ELSE IF Len(Candidates) = 0
       THEN MigrateReturn(TRUE)
       ELSE /\ migrator' = [migrator EXCEPT
                               !.checks = 2,
                               !.pc = "submit",
                               !.sink = <<0>>,
                               !.total_folders = Len(Candidates),
                               !.max_workers = monitor.max_threads]
            /\ monitor' = monitor
    /\ UNCHANGED <<diskVars, migratorEnv, staging, task, migratorFrame>>

\* executor.submit for the candidate the loops are at
Submit ==
    /\ task' = [task EXCEPT ![Candidates[migrator.i]].pc = "queued"]
    /\ migrator' = [migrator EXCEPT !.pc = "submit", !.i = @ + 1, !.waited = 0]

\* the top of a pass of a submission loop: the break on cancellation, the
\* first evaluation of the throttle loop's condition, the submission
MigrateNext ==
    /\ migrator.pc = "submit"
    /\ IF migrator.i > migrator.total_folders \/ ~migrator.is_running
       THEN /\ migrator' = [migrator EXCEPT !.pc = "join"]
            /\ task' = task
       ELSE IF ShouldThrottle
       THEN /\ migrator' = [migrator EXCEPT !.pc = "wait", !.waited = 0]
            /\ task' = task
       ELSE Submit
    /\ UNCHANGED <<diskVars, migratorEnv, staging, monitor, migratorFrame>>

\* one pass of the loop of wait_for_resources(timeout = 5); a False return
\* breaks the throttle loop and the candidate is submitted
MigrateWait ==
    /\ migrator.pc = "wait"
    /\ IF ~monitor.is_running
       THEN Submit
       ELSE IF monitor.current_memory_usage < memory_limit
       THEN /\ migrator' = [migrator EXCEPT !.pc = "throttle"]
            /\ task' = task
       ELSE IF migrator.waited > ThrottleTimeout
       THEN Submit
       ELSE /\ migrator' = [migrator EXCEPT !.waited = @ + 1]
            /\ task' = task
    /\ UNCHANGED <<diskVars, migratorEnv, staging, monitor, migratorFrame>>

\* the throttle loop's condition after wait_for_resources returned True
MigrateThrottle ==
    /\ migrator.pc = "throttle"
    /\ IF migrator.is_running /\ ShouldThrottle
       THEN /\ migrator' = [migrator EXCEPT !.pc = "wait", !.waited = 0]
            /\ task' = task
       ELSE Submit
    /\ UNCHANGED <<diskVars, migratorEnv, staging, monitor, migratorFrame>>

\* the end of migrate() with the mapping saved whether or not the run was
\* cancelled
MigrateJoinSavesAnyway ==
    /\ migrator.pc = "join"
    /\ \A c \in Cands : task[c].pc \in {"none", "done"}
    /\ \E written \in BOOLEAN :
          /\ mapping_file' = IF written
                             THEN MappingFile(migrator.path_mapping)
                             ELSE mapping_file
          /\ migrator' = [migrator EXCEPT !.pc = "done",
                                          !.result = migrator.is_running,
                                          !.saved = written]
    /\ monitor' = StopMonitoring
    /\ UNCHANGED <<disk_src, disk_dst, migratorEnv, staging, task, migratorFrame>>

\* the end of the with block (the pool has run every submitted task), then
\* _save_mapping when the run was not cancelled; an error of the save is
\* caught and logged
MigrateJoin ==
    /\ migrator.pc = "join"
    /\ \A c \in Cands : task[c].pc \in {"none", "done"}
    /\ IF migrator.is_running
       THEN \E written \in BOOLEAN :
              /\ mapping_file' = IF written
                                 THEN MappingFile(migrator.path_mapping)
                                 ELSE mapping_file
              /\ migrator' = [migrator EXCEPT !.pc = "done", !.result = TRUE,
                                              !.saved = written, !.sink = <<100>>]
       ELSE /\ mapping_file' = mapping_file
            /\ migrator' = [migrator EXCEPT !.pc = "done", !.result = FALSE]
    /\ monitor' = StopMonitoring
    /\ UNCHANGED <<disk_src, disk_dst, migratorEnv, staging, task, migratorFrame>>

\* Migrator.stop(), from another thread
MigratorStop ==
    /\ migrator.pc # "done"
    /\ migrator.is_running
    /\ migrator' = [migrator EXCEPT !.is_running = FALSE]
    /\ UNCHANGED <<diskVars, migratorEnv, staging, task, monitor, migratorFrame>>

\* one sample of the monitor thread (_update_resource_usage): with psutil
\* the memory usage and the thread count that the CPU usage leaves; without
\* it the static thread count again
MonitorTick ==
    /\ monitor.is_running
    /\ IF monitor.psutil
       THEN \E u \in MemoryLevels, threads \in 1..MaxPool :
               monitor' = [monitor EXCEPT !.current_memory_usage = u,
                                          !.max_threads = threads]
       ELSE monitor' = monitor
    /\ UNCHANGED <<diskVars, migratorEnv, staging, migrator, task, migratorFrame>>

\* the running tasks occupy fewer threads than the pool has
PoolFree ==
    Cardinality({c \in Cands : task[c].pc \notin {"none", "queued", "done"}})
        < migrator.max_workers

\* c is the task submitted first among the queued ones
FirstQueued(c) ==
    \A j, k \in 1..Len(Candidates) :
        (Candidates[j] = c /\ k < j) => task[Candidates[k]].pc # "queued"

\* a task function returns without a mapping entry
TaskReturn(c, how) ==
    task' = [task EXCEPT ![c] = [@ EXCEPT !.pc = "done", !.outcome = how, !.todo = <<>>,
                                          !.total = 0, !.processed = 0]]

\* int(n / max(1, total) * 100)
Percent(n, total) == (n * 100) \div (IF total < 1 THEN 1 ELSE total)

\* progress_callback(v)
Emit(m, v) == [m EXCEPT !.sink = <<v>>]

\* min(folder_progress + sub_progress, 99) of _compress_folder and
\* _extract_zip, read outside the lock
SubProgress(sub) ==
    LET folder_progress == Percent(migrator.processed_folders, migrator.total_folders)
    IN  IF folder_progress + sub < 99 THEN folder_progress + sub ELSE 99

\* the progress update of the loops of _compress_folder and _extract_zip is
\* made for the first processed file (last_progress_time starts at 0), for
\* the last one, and otherwise when 300 ms have passed since the last update
ProgressTimes(written, n, total) ==
    IF ~written THEN {FALSE}
    ELSE IF n = 1 \/ n = total THEN {TRUE}
    ELSE BOOLEAN

\* the file name of the staging archive of directory c
ZipOf(c) == basename[c]

\* a pool thread takes the task; _migrate_folder / _migrate_file return at
\* once when the source path does not exist
WorkerStart(c) ==
    /\ task[c].pc = "queued"
    /\ PoolFree
    /\ FirstQueued(c)
    /\ IF ~SourceExists(c)
       THEN TaskReturn(c, "missing")
       ELSE task' = [task EXCEPT ![c].pc = IF IsFolder(c) THEN "walk" ELSE "copy_open"]
    /\ UNCHANGED <<diskVars, migratorEnv, staging, migrator, monitor, migratorFrame>>

\* _compress_folder up to the creation of the archive: the os.walk that
\* lists the files (a file whose getsize raises is left out of the list),
\* the return for an empty list, ZipFile(zip_file, 'w')
FolderWalk(c) ==
    /\ task[c].pc = "walk"
    /\ IF ~migrator.is_running
       THEN /\ TaskReturn(c, "failed")
            /\ staging' = staging
       ELSE \E listed \in SUBSET SourceContent(c), opened \in BOOLEAN :
              IF listed = {}
              THEN /\ opened
                   /\ task' = [task EXCEPT ![c] =
                                 [@ EXCEPT !.pc = "extract_open",
                                           !.errors = listed # SourceContent(c)]]
                   /\ staging' = staging
              ELSE IF opened
              THEN /\ task' = [task EXCEPT ![c] =
                                 [@ EXCEPT !.pc = "zip", !.todo = SeqOf(listed),
                                           !.total = Cardinality(listed),
                                           !.processed = 0,
                                           !.errors = listed # SourceContent(c)]]
                   /\ staging' = [staging EXCEPT ![ZipOf(c)] =
                                    [exists |-> TRUE, entries |-> {}]]
              ELSE /\ TaskReturn(c, "failed")
                   /\ staging' = staging
    /\ UNCHANGED <<diskVars, migratorEnv, migrator, monitor, migratorFrame>>

\* one pass of the loop over file_list in _compress_folder: the return on
\* cancellation, zipf.write; an exception of the write is logged and the
\* loop goes on
FolderZipWrite(c) ==
    /\ task[c].pc = "zip"
    /\ IF ~migrator.is_running
       THEN /\ TaskReturn(c, "failed")
            /\ staging' = staging
            /\ migrator' = migrator
       ELSE \E written \in BOOLEAN :
            \E shown \in ProgressTimes(written, task[c].processed + 1, task[c].total) :
              LET n == IF written THEN task[c].processed + 1 ELSE task[c].processed
                  last == Tail(task[c].todo) = <<>>
              IN  /\ staging' = IF written
                                THEN [staging EXCEPT ![ZipOf(c)] =
                                        [exists |-> TRUE,
                                         entries |-> @.entries \cup {Head(task[c].todo)}]]
                                ELSE staging
                  /\ task' = [task EXCEPT ![c] =
                                [@ EXCEPT !.todo = Tail(@),
                                          !.errors = @ \/ ~written,
                                          !.processed = IF last THEN 0 ELSE n,
                                          !.total = IF last THEN 0 ELSE @,
                                          !.pc = IF last THEN "extract_open" ELSE "zip"]]
                  /\ migrator' =
                        IF shown
                        THEN Emit(migrator,
                                  SubProgress(Percent(n, task[c].total) \div 2))
                        ELSE migrator
    /\ UNCHANGED <<diskVars, migratorEnv, monitor, migratorFrame>>

\* _extract_zip up to its loop: ZipFile(zip_file, 'r') raises when there is
\* no archive; an archive without members is a success
FolderExtractOpen(c) ==
    /\ task[c].pc = "extract_open"
    /\ IF ~staging[ZipOf(c)].exists
       THEN TaskReturn(c, "failed")
       ELSE IF staging[ZipOf(c)].entries = {}
       THEN task' = [task EXCEPT ![c].pc = "finish"]
       ELSE task' = [task EXCEPT ![c] =
                       [@ EXCEPT !.pc = "extract",
                                 !.total = Cardinality(staging[ZipOf(c)].entries),
                                 !.processed = 0,
                                 !.todo = SeqOf(staging[ZipOf(c)].entries)]]
    /\ UNCHANGED <<diskVars, migratorEnv, staging, migrator, monitor, migratorFrame>>

\* one pass of the loop of _extract_zip: the return on cancellation,
\* zipf.extract; an exception ends _extract_zip with False
FolderExtract(c) ==
    /\ task[c].pc = "extract"
    /\ IF ~migrator.is_running
       THEN /\ TaskReturn(c, "failed")
            /\ disk_dst' = disk_dst
            /\ migrator' = migrator
       ELSE \E extracted \in BOOLEAN :
            \E shown \in ProgressTimes(extracted, task[c].processed + 1, task[c].total) :
              IF extracted
              THEN LET n == task[c].processed + 1
                       last == Tail(task[c].todo) = <<>>
                   IN  /\ disk_dst' = [disk_dst EXCEPT ![c] =
                                         [exists |-> TRUE,
                                          units |-> @.units \cup {Head(task[c].todo)}]]
                       /\ task' = [task EXCEPT ![c] =
                                     [@ EXCEPT !.todo = Tail(@),
                                               !.processed = IF last THEN 0 ELSE n,
                                               !.total = IF last THEN 0 ELSE @,
                                               !.pc = IF last THEN "finish" ELSE "extract"]]
                       /\ migrator' =
                             IF shown
                             THEN Emit(migrator,
                                       SubProgress(Percent(n, task[c].total) \div 2 + 50))
                             ELSE migrator
              ELSE /\ TaskReturn(c, "failed")
                   /\ disk_dst' = disk_dst
                   /\ migrator' = migrator
    /\ UNCHANGED <<disk_src, mapping_file, migratorEnv, staging,
                   monitor, migratorFrame>>

\* path_mapping[path] = target, processed_folders += 1 and the progress
\* update, under the lock
AddMapping(c) ==
    /\ migrator' = [migrator EXCEPT
                       !.path_mapping = Append(@, c),
                       !.processed_folders = @ + 1,
                       !.sink = LET progress == Percent(migrator.processed_folders + 1,
                                                        migrator.total_folders)
                                IN  IF progress <= 100 THEN <<progress>> ELSE @]
    /\ task' = [task EXCEPT ![c] = [@ EXCEPT !.pc = "done", !.outcome = "mapped"]]

\* a lock that no thread ever holds
LockNeverHeld == TRUE

\* self.lock is free: no pool task is inside a with self.lock block
LockFree == \A other \in Cands : task[other].pc # "locked"

\* with self.lock: the task has the lock as soon as it is free
MappingLock(c) ==
    /\ LockFree
    /\ task' = [task EXCEPT ![c].pc = "locked"]
    /\ migrator' = migrator

\* the body of the with self.lock block of _migrate_folder / _migrate_file
\* and the release of the lock at its end
MappingUpdate(c) ==
    /\ task[c].pc = "locked"
    /\ AddMapping(c)
    /\ UNCHANGED <<diskVars, migratorEnv, staging, monitor, migratorFrame>>

\* the end of _migrate_folder: os.remove(zip_file), whose exception is
\* logged, then the entry into the with self.lock block
FolderFinish(c) ==
    /\ task[c].pc = "finish"
    /\ IsFolder(c)
    /\ \E removed \in BOOLEAN :
          staging' = IF removed /\ staging[ZipOf(c)].exists
                     THEN [staging EXCEPT ![ZipOf(c)] = NoArchive]
                     ELSE staging
    /\ MappingLock(c)
    /\ UNCHANGED <<diskVars, migratorEnv, monitor, migratorFrame>>

\* _migrate_file after the existence check: shutil.copy2 for a file of at
\* most 10 MB, else the two open() of _copy_file_with_progress; an
\* exception ends the task without a mapping entry
FileCopyOpen(c) ==
    /\ task[c].pc = "copy_open"
    /\ \E ok \in BOOLEAN, created \in BOOLEAN :
          IF Size(c) > ChunkedCopyAbove
          THEN IF ok
               THEN /\ created
                    /\ disk_dst' = [disk_dst EXCEPT ![c] =
                                      [exists |-> TRUE, units |-> {}]]
                    /\ task' = [task EXCEPT ![c] =
                                  [@ EXCEPT !.pc = "copy",
                                            !.todo = SeqOf(SourceContent(c))]]
               ELSE /\ ~created
                    /\ disk_dst' = disk_dst
                    /\ TaskReturn(c, "failed")
          ELSE IF ok
               THEN /\ created
                    /\ disk_dst' = [disk_dst EXCEPT ![c] =
                                      [exists |-> TRUE, units |-> SourceContent(c)]]
                    /\ task' = [task EXCEPT ![c].pc = "finish"]
               ELSE /\ disk_dst' = IF created
                                   THEN [disk_dst EXCEPT ![c] =
                                           [exists |-> TRUE, units |-> {}]]
                                   ELSE disk_dst
                    /\ TaskReturn(c, "failed")
    /\ UNCHANGED <<disk_src, mapping_file, migratorEnv, staging, migrator,
                   monitor, migratorFrame>>

\* one pass of the loop of _copy_file_with_progress: the plain return on
\* cancellation, the break at the end of the source followed by copystat,
\* the read and write of one chunk
FileCopyChunk(c) ==
    /\ task[c].pc = "copy"
    /\ IF ~migrator.is_running
       THEN /\ task' = [task EXCEPT ![c] = [@ EXCEPT !.pc = "finish", !.todo = <<>>]]
            /\ disk_dst' = disk_dst
       ELSE \E ok \in BOOLEAN :
              IF ~ok
              THEN /\ TaskReturn(c, "failed")
                   /\ disk_dst' = disk_dst
              ELSE IF task[c].todo = <<>>
              THEN /\ task' = [task EXCEPT ![c].pc = "finish"]
                   /\ disk_dst' = disk_dst
              ELSE /\ disk_dst' = [disk_dst EXCEPT ![c].units =
                                     @ \cup {Head(task[c].todo)}]
                   /\ task' = [task EXCEPT ![c].todo = Tail(@)]
    /\ UNCHANGED <<disk_src, mapping_file, migratorEnv, staging, migrator,
                   monitor, migratorFrame>>

\* the end of _migrate_file: the entry into the with self.lock block
FileFinish(c) ==
    /\ task[c].pc = "finish"
    /\ ~IsFolder(c)
    /\ MappingLock(c)
    /\ UNCHANGED <<diskVars, migratorEnv, staging, monitor, migratorFrame>>

NextMigrator ==
    \/ MigrateStart
    \/ MigrateCheckSpace
    \/ MigrateNext
    \/ MigrateWait
    \/ MigrateThrottle
    \/ MigrateJoin
    \/ MigratorStop
    \/ MonitorTick
    \/ \E c \in Cands : WorkerStart(c)
    \/ \E c \in Cands : FolderWalk(c)
    \/ \E c \in Cands : FolderZipWrite(c)
    \/ \E c \in Cands : FolderExtractOpen(c)
    \/ \E c \in Cands : FolderExtract(c)
    \/ \E c \in Cands : FolderFinish(c)
    \/ \E c \in Cands : FileCopyOpen(c)
    \/ \E c \in Cands : FileCopyChunk(c)
    \/ \E c \in Cands : FileFinish(c)
    \/ \E c \in Cands : MappingUpdate(c)

\* the ways psutil can serve the run: the ResourceMonitor's PSUTIL_AVAILABLE
\* and the outcome of psutil.disk_usage in _check_disk_space
PsutilStates == {<<TRUE, "ok">>, <<TRUE, "error">>, <<FALSE, "import_error">>}

\* the states migrate() is started in: a scan result (or none), sources that
\* are still there or were removed since the scan, nothing at a destination;
\* two directory candidates may have the same base name
InitMigrator ==
    /\ scan_result_file \in ScanResults
    /\ \E here \in [Range(Candidates) -> {"present", "absent"}] :
          disk_src = [c \in Cands |-> IF c \in DOMAIN here THEN here[c] ELSE "absent"]
    /\ disk_dst = [c \in Cands |-> DstAbsent]
    /\ mapping_file = NoFile
    /\ \E ps \in PsutilStates, threads \in 1..MaxPool :
          /\ space_api = ps[2]
          /\ monitor = MonitorNew(ps[1], threads)
    /\ free_space \in IF space_api = "ok" THEN FreeSpaces ELSE {SmallestFree}
    /\ basename \in IF Len(scan_result_file.large_folders) > 1
                     THEN {[c \in Folders |-> c], [c \in Folders |-> "data"]}
                     ELSE {[c \in Folders |-> c]}
    /\ staging = [n \in StagingNames |-> NoArchive]
    /\ migrator = MigratorNew
    /\ task = [c \in Cands |-> TaskNew]
    /\ cleaner = CleanerNew(0)
    /\ remove_calls = {}
    /\ linker = LinkerNew(0)
    /\ has_privilege = FALSE
    /\ mklink_calls = {}
    /\ ScannerIdle
    /\ ResmonIdle
    /\ WorkerIdle

SpecMigrator == InitMigrator /\ [][NextMigrator]_vars

\* the destination's free space is below the estimate of _check_disk_space
InsufficientSpace == free_space * 100 < SumSize(Candidates) * 84

\* migrate() went no further than its checks: nothing was submitted, no
\* mapping entry exists, the mapping file was not written, and the result,
\* once there is one, is False
FailedFast ==
    /\ migrator.pc \in {"init", "space", "done"}
    /\ \A c \in Cands : task[c].pc = "none"
    /\ migrator.path_mapping = <<>>
    /\ ~migrator.saved
    /\ mapping_file = NoFile
    /\ migrator.pc = "done" => migrator.result = FALSE

\* C2: every key of path_mapping is a candidate whose destination holds
\* exactly the data of its source: every file of a directory tree, every
\* chunk of a file.
C2_MappedOnlyAfterFullTransfer ==
    \A c \in Range(migrator.path_mapping) :
        disk_dst[c].exists /\ disk_dst[c].units = SrcUnits(c)

\* C4 as stated: whenever the free space is below sum x 0.7 x 1.2, migrate()
\* fails before any submission, without mapping entry or mapping file.
C4_InsufficientSpaceFailsFast ==
    InsufficientSpace => FailedFast

\* C4, amended: the same, when psutil.disk_usage can be called.
C4_InsufficientSpaceFailsFastWhenMeasured ==
    (space_api = "ok" /\ InsufficientSpace) => FailedFast

\* C4's case: a scan result with candidates was loaded, the free space was
\* measured and is too small, and migrate() returned False at the first
\* call of _check_disk_space.
C4_Witness ==
    /\ migrator.pc = "done"
    /\ migrator.result = FALSE
    /\ migrator.checks = 0
    /\ migrator.is_running
    /\ scan_result_file.exists
    /\ Candidates # <<>>
    /\ space_api = "ok"
    /\ InsufficientSpace

\* C9: a candidate whose source is missing, or for which a step of the
\* archive, the extraction or the copy raised, is not a key of path_mapping,
\* and a written mapping file holds exactly the candidates that went
\* through without an error.
C9_FailedCandidateNotMapped ==
    /\ \A c \in Cands :
          (task[c].outcome \in {"missing", "failed"} \/ task[c].errors)
              => c \notin Range(migrator.path_mapping)
    /\ migrator.saved =>
          Range(mapping_file.path_mapping) =
              {c \in Cands : task[c].outcome = "mapped" /\ ~task[c].errors}

\* C10: migrate() returns True only when every candidate of the scan result
\* is a key of path_mapping.
C10_TrueOnlyIfAllMapped ==
    (migrator.pc = "done" /\ migrator.result = TRUE)
        => Range(Candidates) \subseteq Range(migrator.path_mapping)

-----------------------------------------------------------------------------
(* Scanner.scan() and the pool tasks (src/modules/scanner.py) *)

\* _count_total_folders for one scan path: len(dirs) of every directory that
\* os.walk yields, the walk being cut below the directories at max_depth
CountFolders(path_info) ==
    Cardinality({d \in TreeDirs :
        /\ StartsWith(d, path_info.path)
        /\ d # path_info.path
        /\ \/ path_info.max_depth = NoDepth
           \/ Len(d) - Len(path_info.path) <= path_info.max_depth + 1})

RECURSIVE CountTotalFolders(_)
CountTotalFolders(paths) ==
    IF paths = <<>> THEN 0
    ELSE (IF Head(paths).path \in TreeDirs THEN CountFolders(Head(paths)) ELSE 0)
         + CountTotalFolders(Tail(paths))

\* the threshold test of _scan_directory with the test left out
IsLargeAlways(size) == TRUE

\* size >= self.size_threshold
IsLarge(size) == size >= scanner.size_threshold

\* the merged exclusion list of the task of scan path k
ExcludeFolders(k) ==
    scanner.global_exclude_folders \cup scanner.scan_paths[k].exclude_folders

\* the entries the file loop of _scan_directory appends for the yielded
\* directory root; the depth of a file is that of its directory
FileEntries(k, root) ==
    LET directory == scanner.scan_paths[k].path
        names == SelectSeq(Listing(root).files, LAMBDA n : IsLarge(FileSize(n)))
    IN  [j \in 1..Len(names) |->
            [path     |-> Append(root, names[j]),
             size     |-> FileSize(names[j]),
             depth    |-> Len(root) - Len(directory),
             found_by |-> k]]

\* dirs_to_process: the yielded dirs whose name is not excluded
DirsToProcess(k, root) ==
    SelectSeq(Listing(root).dirs, LAMBDA n : n \notin ExcludeFolders(k))

\* FolderEntries that leaves out the directories at max_depth
FolderEntriesNotAtMaxDepth(k, root) ==
    LET directory == scanner.scan_paths[k].path
        max_depth == scanner.scan_paths[k].max_depth
        dir_depth == Len(root) + 1 - Len(directory)
        names == SelectSeq(DirsToProcess(k, root), LAMBDA n :
                    /\ ~(max_depth # NoDepth /\ dir_depth = max_depth)
                    /\ IsLarge(GetFolderSize(Append(root, n))))
    IN  [j \in 1..Len(names) |->
            [path     |-> Append(root, names[j]),
             size     |-> GetFolderSize(Append(root, names[j])),
             depth    |-> dir_depth,
             found_by |-> k]]

\* the entries the directory loop of _scan_directory appends: not for a
\* directory at depth 1 when max_depth is 2, and only for a large one
FolderEntries(k, root) ==
    LET directory == scanner.scan_paths[k].path
        max_depth == scanner.scan_paths[k].max_depth
        dir_depth == Len(root) + 1 - Len(directory)
        names == SelectSeq(DirsToProcess(k, root), LAMBDA n :
                    /\ ~(max_depth # NoDepth /\ dir_depth = 1 /\ max_depth = 2)
                    /\ IsLarge(GetFolderSize(Append(root, n))))
    IN  [j \in 1..Len(names) |->
            [path     |-> Append(root, names[j]),
             size     |-> GetFolderSize(Append(root, names[j])),
             depth    |-> dir_depth,
             found_by |-> k]]

\* the directories os.walk goes on with below root: every name left in dirs
SubDirs(root) ==
    [j \in 1..Len(Listing(root).dirs) |-> Append(root, Listing(root).dirs[j])]

\* the condition under which the filters keep an entry of a group
Keeps(depth, max_depth) ==
    \/ depth = max_depth
    \/ depth > max_depth
    \/ depth = 0
    \/ (depth = 1 /\ max_depth > 2)

\* path_groups: the positions of the scan paths with max_depth > 1
PathGroups ==
    {g \in 1..Len(scanner.scan_paths) :
        /\ scanner.scan_paths[g].max_depth # NoDepth
        /\ scanner.scan_paths[g].max_depth # 0
        /\ scanner.scan_paths[g].max_depth > 1}

\* the group an entry is put into: the first one whose base path its path
\* starts with; 0 when there is none
GroupOf(entry) ==
    LET gs == {g \in PathGroups : StartsWith(entry.path, scanner.scan_paths[g].path)}
    IN  IF gs = {} THEN 0 ELSE CHOOSE g \in gs : \A h \in gs : g <= h

\* the depth the filters compute for an entry of group g: the number of
\* separators of its path relative to the base path, plus one for a folder
GroupDepth(entry, g, is_file) ==
    IF is_file
    THEN Len(entry.path) - Len(scanner.scan_paths[g].path) - 1
    ELSE Len(entry.path) - Len(scanner.scan_paths[g].path)

RECURSIVE GroupsKept(_, _, _)
GroupsKept(entries, g, is_file) ==
    IF g > Len(scanner.scan_paths) THEN <<>>
    ELSE SelectSeq(entries, LAMBDA e :
             /\ GroupOf(e) = g
             /\ Keeps(GroupDepth(e, g, is_file), scanner.scan_paths[g].max_depth))
         \o GroupsKept(entries, g + 1, is_file)

\* _filter_intermediate_folders / _filter_intermediate_files: the entries of
\* no group first, then group by group the entries that are kept
FilterIntermediate(entries, is_file) ==
    IF PathGroups = {} THEN entries
    ELSE SelectSeq(entries, LAMBDA e : GroupOf(e) = 0)
         \o GroupsKept(entries, 1, is_file)

\* scan() up to the pool: makedirs, whose exception ends scan() with False,
\* and _count_total_folders
ScanStart ==
    /\ scanner.pc = "init"
    /\ \E dirs_ok \in BOOLEAN :
          scanner' = IF dirs_ok
                     THEN [scanner EXCEPT
                              !.pc = "submit",
                              !.total_folders = CountTotalFolders(scanner.scan_paths)]
                     ELSE [scanner EXCEPT !.pc = "done", !.result = FALSE]
    /\ UNCHANGED <<scan_task, output_file, scannerFrame>>

\* one pass of the loop over scan_paths: the break on cancellation, the
\* skip of a path that does not exist, executor.submit
ScanSubmit ==
    /\ scanner.pc = "submit"
    /\ IF scanner.i > Len(scanner.scan_paths) \/ ~scanner.is_running
       THEN /\ scanner' = [scanner EXCEPT !.pc = "join"]
            /\ scan_task' = scan_task
       ELSE /\ scanner' = [scanner EXCEPT !.i = @ + 1]
            /\ scan_task' = IF scanner.scan_paths[scanner.i].path \in TreeDirs
                            THEN [scan_task EXCEPT ![scanner.i].pc = "queued"]
                            ELSE scan_task
    /\ UNCHANGED <<output_file, scannerFrame>>

\* a pool thread takes the first queued task: _scan_directory starts os.walk
ScanTaskStart(k) ==
    /\ scan_task[k].pc = "queued"
    /\ Cardinality({j \in DOMAIN scan_task : scan_task[j].pc = "walk"})
          < scanner.max_threads
    /\ \A j \in 1..(k - 1) : scan_task[j].pc # "queued"
    /\ scan_task' = [scan_task EXCEPT ![k] =
                       [pc |-> "walk", walk |-> <<scanner.scan_paths[k].path>>]]
    /\ UNCHANGED <<scanner, output_file, scannerFrame>>

\* one pass of the os.walk loop of _scan_directory: the return on
\* cancellation, the cut at max_depth, the file loop, the directory loop
ScanWalk(k) ==
    /\ scan_task[k].pc = "walk"
    /\ LET root      == Head(scan_task[k].walk)
           directory == scanner.scan_paths[k].path
           max_depth == scanner.scan_paths[k].max_depth
           rest(w)   == IF w = <<>> THEN [pc |-> "done", walk |-> <<>>]
                                    ELSE [pc |-> "walk", walk |-> w]
       IN  IF ~scanner.is_running
           THEN /\ scan_task' = [scan_task EXCEPT ![k] = rest(<<>>)]
                /\ scanner' = scanner
           ELSE IF max_depth # NoDepth /\ Len(root) - Len(directory) >= max_depth
           THEN /\ scan_task' = [scan_task EXCEPT ![k] = rest(Tail(scan_task[k].walk))]
                /\ scanner' = scanner
           ELSE /\ scan_task' = [scan_task EXCEPT ![k] =
                                   rest(SubDirs(root) \o Tail(scan_task[k].walk))]
                /\ scanner' = [scanner EXCEPT
                       !.large_files = @ \o FileEntries(k, root),
                       !.large_folders = @ \o FolderEntries(k, root),
                       !.processed_folders = @ + Len(DirsToProcess(k, root))]
    /\ UNCHANGED <<output_file, scannerFrame>>

\* scan() that saves without waiting for its tasks to return
ScanJoinNoWait ==
    /\ scanner.pc = "join"
    /\ IF scanner.is_running
       THEN /\ \E written \in BOOLEAN :
                 output_file' =
                    IF written
                    THEN [exists        |-> TRUE,
                          large_folders |-> FilterIntermediate(scanner.large_folders, FALSE),
                          large_files   |-> FilterIntermediate(scanner.large_files, TRUE)]
                    ELSE output_file
            /\ scanner' = [scanner EXCEPT !.pc = "done", !.result = TRUE]
       ELSE /\ output_file' = output_file
            /\ scanner' = [scanner EXCEPT !.pc = "done", !.result = FALSE]
    /\ UNCHANGED <<scan_task, scannerFrame>>

\* the end of the with block (every submitted task has returned), then
\* _save_results when the scan was not cancelled; an exception of the save
\* is caught and logged
ScanJoin ==
    /\ scanner.pc = "join"
    /\ \A k \in DOMAIN scan_task : scan_task[k].pc \in {"none", "done"}
    /\ IF scanner.is_running
       THEN /\ \E written \in BOOLEAN :
                 output_file' =
                    IF written
                    THEN [exists        |-> TRUE,
                          large_folders |-> FilterIntermediate(scanner.large_folders, FALSE),
                          large_files   |-> FilterIntermediate(scanner.large_files, TRUE)]
                    ELSE output_file
            /\ scanner' = [scanner EXCEPT !.pc = "done", !.result = TRUE]
       ELSE /\ output_file' = output_file
            /\ scanner' = [scanner EXCEPT !.pc = "done", !.result = FALSE]
    /\ UNCHANGED <<scan_task, scannerFrame>>

\* Scanner.stop(), from another thread
ScannerStop ==
    /\ scanner.pc # "done"
    /\ scanner.is_running
    /\ scanner' = [scanner EXCEPT !.is_running = FALSE]
    /\ UNCHANGED <<scan_task, output_file, scannerFrame>>

NextScanner ==
    \/ ScanStart
    \/ ScanSubmit
    \/ \E k \in 1..MaxRoots : ScanTaskStart(k)
    \/ \E k \in 1..MaxRoots : ScanWalk(k)
    \/ ScanJoin
    \/ ScannerStop

\* the configurations scan() is started with, over the tree
InitScanner ==
    /\ scanner \in {ScannerNew(paths, threshold, exclude, threads) :
                      paths \in ScanPathLists, threshold \in SizeThresholds,
                      exclude \in {{}, {"b"}}, threads \in 1..MaxPool}
    /\ scan_task = [k \in 1..MaxRoots |-> ScanTaskNew]
    /\ output_file = NoOutput
    /\ disk_src = [c \in Cands |-> "present"]
    /\ disk_dst = [c \in Cands |-> DstAbsent]
    /\ mapping_file = NoFile
    /\ cleaner = CleanerNew(0)
    /\ remove_calls = {}
    /\ linker = LinkerNew(0)
    /\ has_privilege = FALSE
    /\ mklink_calls = {}
    /\ MigratorIdle
    /\ ResmonIdle
    /\ WorkerIdle

SpecScanner == InitScanner /\ [][NextScanner]_vars

\* the entries of the persisted scan result
PersistedFolders == Range(output_file.large_folders)
PersistedFiles == Range(output_file.large_files)

\* the names on the way from base_path down to path, the last one included
NamesBelow(path, base_path) ==
    {path[i] : i \in (Len(base_path) + 1)..Len(path)}

\* C5: once the result is persisted, an entry collected by the task of a
\* scan path with max_depth D > 1 at depth d relative to that scan path is
\* in the persisted result exactly when d = 0, d >= D, or d = 1 and D > 2.
C5_DepthFilter ==
    output_file.exists =>
        /\ \A e \in Range(scanner.large_folders) :
              LET D == scanner.scan_paths[e.found_by].max_depth
              IN  (D # NoDepth /\ D > 1) =>
                     (e \in PersistedFolders <=> Keeps(e.depth, D))
        /\ \A e \in Range(scanner.large_files) :
              LET D == scanner.scan_paths[e.found_by].max_depth
              IN  (D # NoDepth /\ D > 1) =>
                     (e \in PersistedFiles <=> Keeps(e.depth, D))

\* C6: every directory entry and every file entry of the persisted scan
\* result has a size of at least the configured threshold.
C6_PersistedSizeAtLeastThreshold ==
    \A e \in PersistedFolders \cup PersistedFiles :
        e.size >= scanner.size_threshold

\* C6's case: a result with a file entry and a directory entry was
\* persisted, and a directory that the walk went through holds a file
\* below the threshold.
C6_Witness ==
    /\ output_file.exists
    /\ PersistedFiles # {}
    /\ \E e \in PersistedFolders :
          /\ scanner.scan_paths[e.found_by].max_depth = NoDepth
          /\ \E n \in Range(Listing(e.path).files) :
                FileSize(n) < scanner.size_threshold

\* C7: no entry of the persisted scan result is, or lies below, a directory
\* under its scan path whose name is in the global or in the scan path's
\* exclusion list.
C7_NoEntryUnderExcluded ==
    \A e \in PersistedFolders \cup PersistedFiles :
        NamesBelow(e.path, scanner.scan_paths[e.found_by].path)
            \cap ExcludeFolders(e.found_by) = {}

\* C8: the size computed for a directory is the sum of the sizes of the
\* files below it that are not under a directory with an excluded name.
C8_FolderSizeSkipsExcluded ==
    \A e \in Range(scanner.large_folders) :
        e.size = SumFiles({f \in TreeFiles :
                     /\ StartsWith(f, e.path)
                     /\ NamesBelow(SubSeq(f, 1, Len(f) - 1), e.path)
                           \cap ExcludeFolders(e.found_by) = {}})

-----------------------------------------------------------------------------
(* clean() followed by create_links() on the same mapping file *)

\* create_links() is started after clean() has returned
NextCleanLink ==
    \/ NextCleaner
    \/ cleaner.pc = "done" /\ LinkerLoad
    \/ cleaner.pc = "done" /\ LinkerCheck
    \/ cleaner.pc = "done" /\ LinkerCreate
    \/ cleaner.pc = "done" /\ LinkerPoll
    \/ cleaner.pc = "done" /\ LinkerTimeout
    \/ cleaner.pc = "done" /\ LinkerFinish
    \/ cleaner.pc = "done" /\ LinkerStop

InitCleanLink ==
    /\ StageInputs
    /\ cleaner \in {CleanerNew(rc) : rc \in 0..MaxRetryCount}
    /\ remove_calls = {}
    /\ linker \in {LinkerNew(n) : n \in 0..MaxCheckPolls}
    /\ has_privilege \in BOOLEAN
    /\ mklink_calls = {}
    /\ MigratorIdle
    /\ ScannerIdle
    /\ ResmonIdle
    /\ WorkerIdle

SpecCleanLink == InitCleanLink /\ [][NextCleanLink]_vars

\* clean() returned from its for loop without cancellation
CleanerRanThrough ==
    /\ cleaner.pc = "done"
    /\ cleaner.is_running
    /\ mapping_file.exists

\* create_links() returned from its for loop without cancellation
LinkerRanThrough ==
    /\ linker.pc = "done"
    /\ linker.is_running
    /\ IsAdmin
    /\ mapping_file.exists

\* C11: a stage that loaded the mapping and was not cancelled has processed
\* every entry of the mapping, whatever entries failed, and returns True
\* exactly when its failed list is empty.
C11_FailureDoesNotBlock ==
    /\ CleanerRanThrough =>
          /\ cleaner.processed_items = Len(mapping_file.path_mapping)
          /\ cleaner.result = (cleaner.failed_items = <<>>)
    /\ LinkerRanThrough =>
          /\ linker.processed_links = Len(mapping_file.path_mapping)
          /\ linker.result = (linker.failed_links = <<>>)

\* C11's case: both stages ran through a mapping of two entries.  The Cleaner
\* failed on the first entry and still removed the second; the Linker then
\* skipped the first (its source is still there), failed on the second, and
\* both stages returned False with all entries processed.
C11_Witness ==
    /\ CleanerRanThrough
    /\ LinkerRanThrough
    /\ Len(mapping_file.path_mapping) = 2
    /\ cleaner.failed_items = <<mapping_file.path_mapping[1]>>
    /\ disk_src[mapping_file.path_mapping[2]] # "present"
    /\ linker.failed_links = <<mapping_file.path_mapping[2]>>
    /\ cleaner.processed_items = 2
    /\ linker.processed_links = 2
    /\ cleaner.result = FALSE
    /\ linker.result = FALSE

\* C12: once clean() ran through the loaded mapping without being cancelled,
\* every entry whose destination path does not exist is in failed_items,
\* whatever the state of its source path.  (The Cleaner never changes a
\* destination, so the destination was missing when the entry was processed.)
C12_MissingTargetAlwaysFailed ==
    CleanerRanThrough =>
        \A i \in 1..Len(cleaner.path_mapping) :
            ~TargetExists(cleaner.path_mapping[i]) =>
                cleaner.path_mapping[i] \in Range(cleaner.failed_items)

\* the retry loop returns False for the current entry: the for loop of clean()
\* moves on and the source path is as it was
CleanerGaveUp ==
    /\ cleaner.pc = "retry"
    /\ cleaner'.pc = "loop"
    /\ disk_src'[CleanerEntry] = disk_src[CleanerEntry]

\* the waits made after k failed attempts out of rc
SleepsAfter(k, rc) == IF k < rc THEN k ELSE IF rc = 0 THEN 0 ELSE rc - 1

\* C13: inside the retry loop at most retry_count attempts are made, with one
\* wait after each failed attempt except the last of the retry_count; when the
\* loop gives up, retry_count attempts and retry_count - 1 waits were made,
\* the path is appended to failed_items and the source still exists.
C13_BoundedRetry ==
    /\ [](cleaner.pc = "retry" =>
            /\ cleaner.attempt <= cleaner.retry_count
            /\ cleaner.sleeps = SleepsAfter(cleaner.attempt, cleaner.retry_count))
    /\ [][CleanerGaveUp =>
            \A c \in {CleanerEntry} :
               /\ cleaner.attempt = cleaner.retry_count
               /\ cleaner.sleeps = SleepsAfter(cleaner.retry_count, cleaner.retry_count)
               /\ cleaner'.failed_items = Append(cleaner.failed_items, c)
               /\ SourceExists(c)']_vars

\* C13's case: with retry_count = 2, clean() finished and an entry on which a
\* delete was attempted is in failed_items with its source still on disk.
C13_Witness ==
    /\ cleaner.pc = "done"
    /\ cleaner.retry_count = MaxRetryCount
    /\ \E i \in 1..Len(cleaner.failed_items) :
          LET c == cleaner.failed_items[i]
          IN  /\ RemoveCall(c) \in remove_calls
              /\ SourceExists(c)

\* C14: without the privilege create_links() does nothing but return False:
\* the mapping is never loaded, the for loop is never entered (no path is
\* examined, processed or recorded as failed) and no mklink is issued.
C14_NoPrivilegeFailsFirst ==
    ~IsAdmin =>
        /\ linker.pc \in {"init", "done"}
        /\ linker.pc = "done" => linker.result = FALSE
        /\ linker.path_mapping = <<>>
        /\ linker.total_links = 0
        /\ linker.processed_links = 0
        /\ linker.failed_links = <<>>
        /\ mklink_calls = {}

\* C14's case: create_links() returned without the privilege on a mapping
\* with an entry that it would have linked.
C14_Witness ==
    /\ ~IsAdmin
    /\ linker.pc = "done"
    /\ mapping_file.exists
    /\ \E i \in 1..Len(mapping_file.path_mapping) :
          LinkBranch(mapping_file.path_mapping[i]) = "link"

\* one call of _create_link returns or reaches _check_link: the step of the
\* for loop of create_links() that handles the current entry
LinkerHandlesEntry ==
    /\ linker.pc = "loop"
    /\ linker'.pc = "check" \/ linker'.idx = linker.idx + 1

\* C15: with the privilege the for loop is entered for a loaded mapping, and
\* the step that handles an entry whose source is absent and whose destination
\* exists issues mklink /D at the source path; the source path is then a link
\* unless mklink itself failed, which records the entry as failed.  After an
\* uncancelled run every entry was handled and no such entry is left without
\* its mklink call.
C15_LinksAbsentSourceToTarget ==
    /\ [][LinkerHandlesEntry =>
            \A c \in {LinkerEntry} :
               (~SourceExists(c) /\ TargetExists(c)) =>
                  /\ mklink_calls' = mklink_calls \cup {MklinkCall(c)}
                  /\ \/ disk_src'[c] = "link" /\ linker'.pc = "check"
                     \/ /\ disk_src'[c] = disk_src[c]
                        /\ linker'.failed_links = Append(linker.failed_links, c)]_vars
    /\ [](LinkerRanThrough =>
            /\ linker.processed_links = Len(mapping_file.path_mapping)
            /\ \A i \in 1..Len(linker.path_mapping) :
                  LET c == linker.path_mapping[i]
                  IN  (~SourceExists(c) /\ TargetExists(c)) =>
                         /\ \E k \in mklink_calls : k.path = c
                         /\ c \in Range(linker.failed_links))

\* C15's case: an uncancelled privileged run issued mklink for an entry, the
\* source path is now a link and the entry is not in failed_links.
C15_Witness ==
    /\ LinkerRanThrough
    /\ \E i \in 1..Len(linker.path_mapping) :
          LET c == linker.path_mapping[i]
          IN  /\ \E k \in mklink_calls :
                    k.path = c /\ k.source = "absent" /\ k.target_exists
              /\ disk_src[c] = "link"
              /\ c \notin Range(linker.failed_links)

\* C16: the step that handles an entry whose source path exists leaves
\* failed_links, the mklink history and the disk as they were; the step that
\* handles an entry whose source is absent and whose destination is missing
\* appends the entry to failed_links, and issues no mklink either.
C16_SkipAndMissingTarget ==
    [][LinkerHandlesEntry =>
         \A c \in {LinkerEntry} :
            /\ SourceExists(c) =>
                  /\ linker'.failed_links = linker.failed_links
                  /\ linker'.processed_links = linker.processed_links + 1
                  /\ UNCHANGED <<diskVars, mklink_calls>>
            /\ (~SourceExists(c) /\ ~TargetExists(c)) =>
                  /\ linker'.failed_links = Append(linker.failed_links, c)
                  /\ linker'.processed_links = linker.processed_links + 1
                  /\ UNCHANGED <<diskVars, mklink_calls>>]_vars

\* C16's case: an uncancelled privileged run over two entries, one with its
\* source still there (not in failed_links), one with neither source nor
\* destination (in failed_links), and no mklink issued.
C16_Witness ==
    /\ LinkerRanThrough
    /\ mklink_calls = {}
    /\ \E i, j \in 1..Len(linker.path_mapping) :
          LET c == linker.path_mapping[i]
              e == linker.path_mapping[j]
          IN  /\ SourceExists(c)
              /\ c \notin Range(linker.failed_links)
              /\ ~SourceExists(e) /\ ~TargetExists(e)
              /\ linker.failed_links = <<e>>

\* the steps of the thread that runs create_links()
LinkerThread ==
    \/ LinkerLoad
    \/ LinkerCheck
    \/ LinkerCreate
    \/ LinkerPoll
    \/ LinkerTimeout
    \/ LinkerFinish

\* create_links() on a thread that keeps running
SpecLinkerFair == SpecLinker /\ WF_vars(LinkerThread)

\* _check_link returns to _create_link
LinkerCheckReturns ==
    /\ linker.pc = "check"
    /\ linker'.pc # "check"

\* C17: while _check_link polls, the link object exists and no more than
\* check_timeout / 0.5 s unreported polls have been made; the poll always
\* ends; and when it ends with every poll unreported the entry is appended to
\* failed_links while the link stays on disk (when it ends on a report the
\* entry is not recorded).
C17_CheckTimeoutRecordsFailure ==
    /\ [](linker.pc = "check" =>
            /\ linker.polls <= linker.check_polls
            /\ disk_src[LinkerEntry] = "link")
    /\ ((linker.pc = "check") ~> (linker.pc # "check"))
    /\ [][LinkerCheckReturns =>
            \A c \in {LinkerEntry} :
               /\ disk_src'[c] = "link"
               /\ linker'.failed_links =
                     IF linker.polls >= linker.check_polls
                     THEN Append(linker.failed_links, c)
                     ELSE linker.failed_links]_vars

\* C17's case: mklink created the link for a folder entry, check_timeout
\* (two polls) elapsed without a report, and the entry is in failed_links
\* with the link on disk.
C17_Witness ==
    /\ linker.check_polls = MaxCheckPolls
    /\ linker.pc # "check"
    /\ \E i \in 1..Len(linker.failed_links) :
          LET c == linker.failed_links[i]
          IN  /\ IsFolder(c)
              /\ disk_src[c] = "link"
              /\ \E k \in mklink_calls : k.path = c /\ k.source = "absent"

\* a candidate is handed to the pool: executor.submit
Submitted(c) == task[c].pc = "none" /\ task'[c].pc # "none"

\* C18: no step taken while the cancellation flag is set (is_running false)
\* submits a candidate to the pool.
C18_NoSubmitAfterStop ==
    [][~migrator.is_running => \A c \in Cands : ~Submitted(c)]_vars

\* C19: when scan() returns after Scanner.stop() with entries collected
\* before the cancellation, the scan result file has been written.
C19_CancelledScanFlushed ==
    (/\ scanner.pc = "done"
     /\ ~scanner.is_running
     /\ Len(scanner.large_folders) + Len(scanner.large_files) > 0)
        => output_file.exists

\* the steps of the thread that runs migrate()
MigrateThread ==
    \/ MigrateStart
    \/ MigrateCheckSpace
    \/ MigrateNext
    \/ MigrateWait
    \/ MigrateThrottle
    \/ MigrateJoin

\* the steps of the pool thread that runs the task of candidate c
PoolThread(c) ==
    \/ WorkerStart(c)
    \/ FolderWalk(c)
    \/ FolderZipWrite(c)
    \/ FolderExtractOpen(c)
    \/ FolderExtract(c)
    \/ FolderFinish(c)
    \/ FileCopyOpen(c)
    \/ FileCopyChunk(c)
    \/ FileFinish(c)
    \/ MappingUpdate(c)

\* migrate() with every thread kept running: the migrate thread, the monitor
\* thread (it samples every check_interval) and the pool threads
SpecMigratorFair ==
    /\ SpecMigrator
    /\ WF_vars(MigrateThread)
    /\ WF_vars(MonitorTick)
    /\ \A c \in Cands : WF_vars(PoolThread(c))

\* C20: once migrate() is in its submission loops, either the run is
\* cancelled or every candidate of the scan result is eventually submitted to
\* the pool, whatever memory usage the monitor samples.
C20_EveryCandidateSubmitted ==
    (migrator.pc \in {"submit", "wait", "throttle"}) ~>
        \/ ~migrator.is_running
        \/ \A c \in Range(Candidates) : task[c].pc # "none"

\* C21: within one run of migrate(), every value passed to the progress sink
\* is in 0..100 and no value is smaller than the value passed before it.
C21_ProgressMonotone ==
    /\ [](migrator.sink # <<>> => migrator.sink[1] \in 0..100)
    /\ [][(migrator.sink # <<>> /\ migrator'.sink # <<>>) =>
             migrator'.sink[1] >= migrator.sink[1]]_vars

-----------------------------------------------------------------------------
(* A ResourceMonitor on its own (src/modules/resource_monitor.py): the
   sampling thread and a caller of should_throttle / wait_for_resources *)

\* multiprocessing.cpu_count()
CpuCounts == {1, 2, 4}
\* the cpu_limit argument of the constructor, in percent
CpuLimitArgs == {0, 50, 100, 150}
\* psutil.cpu_percent() / 100, in percent
CpuLevels == {0, 50, 100}
\* psutil.Process.cpu_percent() / 100, in percent: above 100 when the
\* threads of the process run on several cores
ProcessCpuLevels == {0, 50, 150}

\* start_monitoring
ResmonStart ==
    /\ ~resmon.is_running
    /\ resmon' = [resmon EXCEPT !.is_running = TRUE]
    /\ UNCHANGED resmonFrame

\* stop_monitoring
ResmonStop ==
    /\ resmon.is_running
    /\ resmon' = [resmon EXCEPT !.is_running = FALSE]
    /\ UNCHANGED resmonFrame

\* available_cpu = max(0.1, cpu_limit - (current_cpu_usage - process_cpu))
AvailableCpu(limit, system, process) ==
    IF limit - (system - process) < 10 THEN 10 ELSE limit - (system - process)

\* one pass of _monitor_resources: _update_resource_usage.  With psutil the
\* usages are sampled and max_threads is recomputed; an exception of a psutil
\* call is logged and leaves the later assignments undone.  Without psutil
\* the static thread count is assigned again.
ResmonTick ==
    /\ resmon.is_running
    /\ resmon.ticks < MaxTicks
    /\ IF resmon.psutil
       THEN \E system \in CpuLevels, memory \in MemoryLevels,
               process \in ProcessCpuLevels,
               raised \in {"none", "cpu_percent", "virtual_memory", "Process"} :
              resmon' =
                 CASE raised = "cpu_percent" -> resmon
                   [] raised = "virtual_memory" ->
                        [resmon EXCEPT !.current_cpu_usage = system]
                   [] raised = "Process" ->
                        [resmon EXCEPT !.current_cpu_usage = system,
                                       !.current_memory_usage = memory]
                   [] raised = "none" ->
                        [resmon EXCEPT
                            !.current_cpu_usage = system,
                            !.current_memory_usage = memory,
                            !.process_cpu = process,
                            !.max_threads =
                                ThreadsFor(resmon.cpu_count,
                                           AvailableCpu(resmon.cpu_limit, system, process)),
                            !.ticks = @ + 1]
       ELSE resmon' = [resmon EXCEPT
                          !.max_threads = ThreadsFor(resmon.cpu_count, resmon.cpu_limit),
                          !.ticks = @ + 1]
    /\ UNCHANGED resmonFrame

\* the caller calls should_throttle()
ResmonShouldThrottle ==
    /\ ~resmon.waiting
    /\ resmon' = [resmon EXCEPT
                     !.call = [op |-> "should_throttle",
                               result |-> ShouldThrottleOf(resmon), sleeps |-> 0]]
    /\ UNCHANGED resmonFrame

\* wait_for_resources with its first test removed
WaitNeverAtOnce(m) == FALSE

\* the first test of wait_for_resources: without psutil it returns True
WaitReturnsAtOnce(m) == ~m.psutil

\* wait_for_resources returns r to the caller
ResmonReturn(r) ==
    resmon' = [resmon EXCEPT
                  !.call = [op |-> "wait_for_resources", result |-> r,
                            sleeps |-> resmon.waited],
                  !.waiting = FALSE, !.waited = 0]

\* the caller calls wait_for_resources(timeout)
ResmonWaitCall ==
    /\ ~resmon.waiting
    /\ IF WaitReturnsAtOnce(resmon)
       THEN ResmonReturn(TRUE)
       ELSE resmon' = [resmon EXCEPT !.waiting = TRUE, !.waited = 0]
    /\ UNCHANGED resmonFrame

\* one pass of the loop of wait_for_resources
ResmonWaitStep ==
    /\ resmon.waiting
    /\ IF ~resmon.is_running
       THEN ResmonReturn(FALSE)
       ELSE IF resmon.current_memory_usage < memory_limit
       THEN ResmonReturn(TRUE)
       ELSE IF resmon.waited > ThrottleTimeout
       THEN ResmonReturn(FALSE)
       ELSE resmon' = [resmon EXCEPT !.waited = @ + 1]
    /\ UNCHANGED resmonFrame

NextResmon ==
    \/ ResmonStart
    \/ ResmonStop
    \/ ResmonTick
    \/ ResmonShouldThrottle
    \/ ResmonWaitCall
    \/ ResmonWaitStep

InitResmon ==
    /\ resmon \in {ResmonNew(psutil, cpu_count, cpu_limit) :
                      psutil \in BOOLEAN, cpu_count \in CpuCounts,
                      cpu_limit \in CpuLimitArgs}
    /\ disk_src = [c \in Cands |-> "present"]
    /\ disk_dst = [c \in Cands |-> DstAbsent]
    /\ mapping_file = NoFile
    /\ cleaner = CleanerNew(0)
    /\ remove_calls = {}
    /\ linker = LinkerNew(0)
    /\ has_privilege = FALSE
    /\ mklink_calls = {}
    /\ MigratorIdle
    /\ ScannerIdle
    /\ WorkerIdle

SpecResmon == InitResmon /\ [][NextResmon]_vars

\* C22: a completed sampling tick with psutil leaves max_threads at
\* max(1, floor(cpu_count * clamp(cpu_limit - (system - process), 0.1, 1.0))),
\* which lies in 1..cpu_count.
C22_MaxThreadsClamped ==
    [][(resmon.psutil /\ resmon'.ticks = resmon.ticks + 1) =>
          /\ resmon'.max_threads =
                ThreadsFor(resmon.cpu_count,
                           Clamp(resmon.cpu_limit
                                   - (resmon'.current_cpu_usage - resmon'.process_cpu),
                                 10, 100))
          /\ resmon'.max_threads >= 1
          /\ resmon'.max_threads <= resmon.cpu_count]_vars

\* C23: without psutil max_threads is max(1, floor(cpu_count * cpu_limit))
\* after any number of ticks, should_throttle() returns False, and
\* wait_for_resources() returns True without entering its loop.
C23_DegradedMonitor ==
    ~resmon.psutil =>
        /\ resmon.max_threads = ThreadsFor(resmon.cpu_count, resmon.cpu_limit)
        /\ ~ShouldThrottleOf(resmon)
        /\ ~resmon.waiting
        /\ resmon.call.op = "should_throttle" => ~resmon.call.result
        /\ resmon.call.op = "wait_for_resources" =>
               resmon.call.result /\ resmon.call.sleeps = 0

\* C23's case: without psutil, two ticks were made and wait_for_resources
\* was called on a monitor that is not running.
C23_Witness ==
    /\ ~resmon.psutil
    /\ resmon.ticks = MaxTicks
    /\ ~resmon.is_running
    /\ resmon.cpu_count > 1
    /\ resmon.call.op = "wait_for_resources"

-----------------------------------------------------------------------------
(* The scan result as a function of the configuration and the tree *)

\* _scan_directory run to its end without cancellation, alone: the entries
\* it appends to large_files (is_file) or to large_folders, in the order
\* of its walk
RECURSIVE WalkFrom(_, _, _)
WalkFrom(k, walk, is_file) ==
    IF walk = <<>> THEN <<>>
    ELSE LET root      == Head(walk)
             directory == scanner.scan_paths[k].path
             max_depth == scanner.scan_paths[k].max_depth
         IN  IF max_depth # NoDepth /\ Len(root) - Len(directory) >= max_depth
             THEN WalkFrom(k, Tail(walk), is_file)
             ELSE (IF is_file THEN FileEntries(k, root) ELSE FolderEntries(k, root))
                  \o WalkFrom(k, SubDirs(root) \o Tail(walk), is_file)

\* scan() with its tasks run one after the other, in the order of
\* scan_paths: the list that _save_results is given
RECURSIVE ScanOneWorker(_, _)
ScanOneWorker(k, is_file) ==
    IF k > Len(scanner.scan_paths) THEN <<>>
    ELSE (IF scanner.scan_paths[k].path \in TreeDirs
          THEN WalkFrom(k, <<scanner.scan_paths[k].path>>, is_file)
          ELSE <<>>)
         \o ScanOneWorker(k + 1, is_file)

\* what _save_results writes of an entry: path, size, depth
EntryOf(e) == [path |-> e.path, size |-> e.size, depth |-> e.depth]

\* the written entries of a list, each with the number of times it is there
BagOfEntries(s) ==
    [x \in {EntryOf(s[i]) : i \in DOMAIN s} |->
        Cardinality({i \in DOMAIN s : EntryOf(s[i]) = x})]

C25_RootReportedAtDepthZero ==
    output_file.exists =>
        \A k \in DOMAIN scanner.scan_paths :
            (/\ scanner.scan_paths[k].path \in TreeDirs
             /\ GetFolderSize(scanner.scan_paths[k].path) >= scanner.size_threshold)
            => \E e \in PersistedFolders :
                  /\ e.path = scanner.scan_paths[k].path
                  /\ e.depth = 0

\* the worker of directory c is between the creation and the removal of its
\* staging archive
UsesArchive(c) == task[c].pc \in {"zip", "extract_open", "extract", "finish"}

\* C28: two workers of distinct directory candidates that are between the
\* creation and the removal of their staging archives use archives of
\* different paths.
C28_StagingArchiveNotShared ==
    \A c, d \in Folders :
        (c # d /\ UsesArchive(c) /\ UsesArchive(d)) => ZipOf(c) # ZipOf(d)

\* create_links() has returned True
LinkerSucceeded == linker.pc = "done" /\ linker.result = TRUE

\* C30 as stated: when create_links() has returned True, every entry of the
\* mapping has a directory link at its source path and its destination
\* exists.
C30_SuccessMeansAllLinked ==
    LinkerSucceeded =>
        \A c \in Range(mapping_file.path_mapping) :
            disk_src[c] = "link" /\ TargetExists(c)

\* C30, amended: when create_links() has returned True, every entry of the
\* mapping either was skipped, its source path existing and no mklink issued
\* for it, or is a directory for which mklink was issued at its absent source
\* path, whose source path is now a link and whose destination exists.
C30_SuccessMeansSkippedOrLinked ==
    LinkerSucceeded =>
        \A c \in Range(mapping_file.path_mapping) :
            \/ /\ SourceExists(c)
               /\ \A k \in mklink_calls : k.path # c
            \/ /\ IsFolder(c)
               /\ \E k \in mklink_calls :
                     k.path = c /\ k.source = "absent" /\ k.target_exists
               /\ disk_src[c] = "link"
               /\ TargetExists(c)

\* C30's case: create_links() returned True for a mapping of two entries, of
\* which one was skipped because its source is a plain directory, and the
\* other was linked and verified.
C30_Witness ==
    /\ LinkerSucceeded
    /\ \E c, e \in Range(mapping_file.path_mapping) :
          /\ disk_src[c] = "present"
          /\ \A k \in mklink_calls : k.path # c
          /\ disk_src[e] = "link"
          /\ \E k \in mklink_calls : k.path = e

-----------------------------------------------------------------------------
(* WorkerThread (src/main.py): the stages run from the main window, one task
   at a time, each stage object local to the method that runs it *)

\* the task types of WorkerThread.run
TaskTypes == {"scan", "migrate", "clean", "link", "all"}

\* the stage that _run_all calls after a stage
StageAfter(stage) ==
    CASE stage = "scan"    -> "migrate"
      [] stage = "migrate" -> "clean"
      [] stage = "clean"   -> "link"

\* the configuration of the session: one scan path, r, walked to depth 1
\* without its directory x
SessionScanPaths ==
    <<[path |-> <<"r">>, max_depth |-> 1, exclude_folders |-> {"x"}]>>

\* the candidate that stands for a path of the scanned tree
CandidateOf(path) ==
    CASE path = <<"r", "a">>      -> "FA"
      [] path = <<"r", "x">>      -> "FB"
      [] path = <<"r", "f">>      -> "G1"
      [] path = <<"r", "a", "g">> -> "G2"

\* _load_scan_result: the candidates of the file that the Scanner wrote
ScanResultOf(out) ==
    [exists        |-> out.exists,
     large_folders |-> [j \in 1..Len(out.large_folders) |->
                          CandidateOf(out.large_folders[j].path)],
     large_files   |-> [j \in 1..Len(out.large_files) |->
                          CandidateOf(out.large_files[j].path)]]

\* the worker is inside the stage's method, past its checks
Running(stage) == worker.pc = "running" /\ worker.stage = stage

\* a stage method has emitted finished_signal(success, ...) and returned:
\* _run_all goes on with the next stage whatever was emitted, and emits
\* finished_signal(True, ...) itself after the last one; any other task type
\* ends with the signal of its stage.  failed records that a stage of the
\* run emitted False, signal the last value emitted when run() returns.
WorkerAfter(success) ==
    IF worker.task_type = "all" /\ worker.stage # "link"
    THEN [worker EXCEPT !.pc = "enter", !.stage = StageAfter(worker.stage),
                        !.failed = @ \/ ~success]
    ELSE [worker EXCEPT !.pc = "finished",
                        !.failed = @ \/ ~success,
                        !.signal = IF worker.task_type = "all" THEN TRUE
                                   ELSE success]

\* MainWindow._start_task and WorkerThread.run: no task is started while one
\* is running.  A scan is started on the tree as it is before any source
\* was removed.
WorkerRun(t) ==
    /\ worker.pc = "idle"
    /\ t \in {"scan", "all"} => \A c \in Cands : disk_src[c] = "present"
    /\ worker' = [pc |-> "enter", task_type |-> t,
                  stage |-> IF t = "all" THEN "scan" ELSE t,
                  is_running |-> TRUE, failed |-> FALSE, signal |-> "none"]
    /\ UNCHANGED <<diskVars, cleanerVars, linkerVars, migratorVars, scannerVars,
                   resmonVars>>

\* _run_scan up to scanner.scan()
RunScan ==
    /\ worker.pc = "enter" /\ worker.stage = "scan"
    /\ scanner' = ScannerNew(scanner.scan_paths, scanner.size_threshold,
                             scanner.global_exclude_folders, scanner.max_threads)
    /\ scan_task' = [k \in 1..MaxRoots |-> ScanTaskNew]
    /\ worker' = [worker EXCEPT !.pc = "running"]
    /\ UNCHANGED <<output_file, diskVars, cleanerVars, linkerVars, migratorVars,
                   resmonVars>>

\* _run_migrate up to migrator.migrate(): the return when there is no scan
\* result file, else the Migrator and its ResourceMonitor
RunMigrate ==
    /\ worker.pc = "enter" /\ worker.stage = "migrate"
    /\ IF ~output_file.exists
       THEN /\ worker' = WorkerAfter(FALSE)
            /\ UNCHANGED <<scan_result_file, migrator, task, monitor>>
       ELSE /\ scan_result_file' = ScanResultOf(output_file)
            /\ migrator' = MigratorNew
            /\ task' = [c \in Cands |-> TaskNew]
            /\ monitor' = MonitorNew(monitor.psutil, MaxPool)
            /\ worker' = [worker EXCEPT !.pc = "running"]
    /\ UNCHANGED <<free_space, space_api, basename, staging, diskVars, cleanerVars,
                   linkerVars, scannerVars, resmonVars>>

\* _run_clean without the check of the mapping file
RunCleanNoCheck ==
    /\ worker.pc = "enter" /\ worker.stage = "clean"
    /\ cleaner' = CleanerNew(cleaner.retry_count)
    /\ remove_calls' = {}
    /\ worker' = [worker EXCEPT !.pc = "running"]
    /\ UNCHANGED <<diskVars, linkerVars, migratorVars, scannerVars, resmonVars>>

\* _run_clean up to cleaner.clean(): the return when there is no mapping file
RunClean ==
    /\ worker.pc = "enter" /\ worker.stage = "clean"
    /\ IF ~mapping_file.exists
       THEN /\ worker' = WorkerAfter(FALSE)
            /\ UNCHANGED cleanerVars
       ELSE /\ cleaner' = CleanerNew(cleaner.retry_count)
            /\ remove_calls' = {}
            /\ worker' = [worker EXCEPT !.pc = "running"]
    /\ UNCHANGED <<diskVars, linkerVars, migratorVars, scannerVars, resmonVars>>

\* _run_link up to linker.create_links(): the returns when there is no
\* mapping file and when the process is not elevated
RunLink ==
    /\ worker.pc = "enter" /\ worker.stage = "link"
    /\ IF ~mapping_file.exists \/ ~IsAdmin
       THEN /\ worker' = WorkerAfter(FALSE)
            /\ UNCHANGED <<linker, mklink_calls>>
       ELSE /\ linker' = LinkerNew(linker.check_polls)
            /\ mklink_calls' = {}
            /\ worker' = [worker EXCEPT !.pc = "running"]
    /\ UNCHANGED <<has_privilege, diskVars, cleanerVars, migratorVars, scannerVars,
                   resmonVars>>

\* the value that scan(), migrate(), clean() or create_links() returned to
\* the method of the stage
StageSuccess ==
    CASE worker.stage = "scan"    -> scanner.result = TRUE
      [] worker.stage = "migrate" -> migrator.result = TRUE
      [] worker.stage = "clean"   -> cleaner.result = TRUE
      [] worker.stage = "link"    -> linker.result = TRUE

\* scan(), migrate(), clean() or create_links() has returned: the method of
\* the stage emits finished_signal with the value returned and returns, and
\* the stage object, local to the method, is gone with what it held
RunReturns ==
    /\ worker.pc = "running"
    /\ CASE worker.stage = "scan"    -> scanner.pc = "done"
         [] worker.stage = "migrate" -> migrator.pc = "done"
         [] worker.stage = "clean"   -> cleaner.pc = "done"
         [] worker.stage = "link"    -> linker.pc = "done"
    /\ worker' = WorkerAfter(StageSuccess)
    /\ scanner' = ScannerNew(scanner.scan_paths, scanner.size_threshold,
                             scanner.global_exclude_folders, scanner.max_threads)
    /\ scan_task' = [k \in 1..MaxRoots |-> ScanTaskNew]
    /\ migrator' = MigratorNew
    /\ task' = [c \in Cands |-> TaskNew]
    /\ monitor' = MonitorNew(monitor.psutil, MaxPool)
    /\ cleaner' = CleanerNew(cleaner.retry_count)
    /\ remove_calls' = {}
    /\ linker' = LinkerNew(linker.check_polls)
    /\ mklink_calls' = {}
    /\ UNCHANGED <<diskVars, output_file, migratorEnv, staging, has_privilege,
                   resmonVars>>

\* run() has returned: the thread is no longer running
WorkerExit ==
    /\ worker.pc = "finished"
    /\ worker' = NoWorker
    /\ UNCHANGED <<diskVars, cleanerVars, linkerVars, migratorVars, scannerVars,
                   resmonVars>>

\* WorkerThread.stop(), called by the window while the thread is running
WorkerStop ==
    /\ worker.pc \in {"enter", "running"}
    /\ worker.is_running
    /\ worker' = [worker EXCEPT !.is_running = FALSE]
    /\ UNCHANGED <<diskVars, cleanerVars, linkerVars, migratorVars, scannerVars,
                   resmonVars>>

\* WorkerThread never calls stop() of a stage object, and the session runs
\* without psutil, where should_throttle() is always False
NextSession ==
    \/ \E t \in TaskTypes : WorkerRun(t)
    \/ WorkerExit
    \/ WorkerStop
    \/ RunScan
    \/ RunMigrate
    \/ RunClean
    \/ RunLink
    \/ RunReturns
    \/ Running("scan") /\ ScanStart
    \/ Running("scan") /\ ScanSubmit
    \/ Running("scan") /\ \E k \in 1..MaxRoots : ScanTaskStart(k)
    \/ Running("scan") /\ \E k \in 1..MaxRoots : ScanWalk(k)
    \/ Running("scan") /\ ScanJoin
    \/ Running("migrate") /\ MigrateStart
    \/ Running("migrate") /\ MigrateCheckSpace
    \/ Running("migrate") /\ MigrateNext
    \/ Running("migrate") /\ MigrateJoin
    \/ Running("migrate") /\ MonitorTick
    \/ Running("migrate") /\ \E c \in Cands : WorkerStart(c)
    \/ Running("migrate") /\ \E c \in Cands : FolderWalk(c)
    \/ Running("migrate") /\ \E c \in Cands : FolderZipWrite(c)
    \/ Running("migrate") /\ \E c \in Cands : FolderExtractOpen(c)
    \/ Running("migrate") /\ \E c \in Cands : FolderExtract(c)
    \/ Running("migrate") /\ \E c \in Cands : FolderFinish(c)
    \/ Running("migrate") /\ \E c \in Cands : FileCopyOpen(c)
    \/ Running("migrate") /\ \E c \in Cands : FileCopyChunk(c)
    \/ Running("migrate") /\ \E c \in Cands : FileFinish(c)
    \/ Running("migrate") /\ \E c \in Cands : MappingUpdate(c)
    \/ Running("clean") /\ CleanerLoad
    \/ Running("clean") /\ CleanerCheck
    \/ Running("clean") /\ CleanerAttempt
    \/ Running("clean") /\ CleanerKill
    \/ Running("clean") /\ CleanerRetryNow
    \/ Running("clean") /\ CleanerGiveUp
    \/ Running("clean") /\ CleanerFinish
    \/ Running("link") /\ LinkerLoad
    \/ Running("link") /\ LinkerCheck
    \/ Running("link") /\ LinkerCreate
    \/ Running("link") /\ LinkerPoll
    \/ Running("link") /\ LinkerTimeout
    \/ Running("link") /\ LinkerFinish

\* the program after start: every source in place, no artifact, nothing at
\* a destination or under temp_path, no task running
InitSession ==
    /\ worker = NoWorker
    /\ disk_src = [c \in Cands |-> "present"]
    /\ disk_dst = [c \in Cands |-> DstAbsent]
    /\ mapping_file = NoFile
    /\ output_file = NoOutput
    /\ scanner \in {ScannerNew(SessionScanPaths, threshold, {}, 1) :
                      threshold \in SizeThresholds}
    /\ scan_task = [k \in 1..MaxRoots |-> ScanTaskNew]
    /\ scan_result_file = NoScanResult
    /\ free_space = 200
    /\ space_api = "import_error"
    /\ basename = [c \in Folders |-> c]
    /\ staging = [n \in StagingNames |-> NoArchive]
    /\ migrator = MigratorNew
    /\ task = [c \in Cands |-> TaskNew]
    /\ monitor = MonitorNew(FALSE, MaxPool)
    /\ cleaner = CleanerNew(1)
    /\ remove_calls = {}
    /\ linker = LinkerNew(1)
    /\ has_privilege \in BOOLEAN
    /\ mklink_calls = {}
    /\ ResmonIdle

SpecSession == InitSession /\ [][NextSession]_vars

\* no pool task of the Migrator was submitted and nothing is in its mapping
MigratorUntouched ==
    /\ migrator = MigratorNew
    /\ \A c \in Cands : task[c] = TaskNew

\* C26: the Migrator is at work, and a transfer task is submitted, only
\* while the scan result file exists; the Cleaner and the Linker are at work,
\* and issue a removal or a mklink, only while the mapping file exists; only
\* the object of the stage the worker is at is at work; and in 'all' mode the
\* worker goes from scan to migrate to clean to link and then ends, leaving
\* a stage only when its method has returned at its check or after the
\* stage's call has returned.
C26_StagesGatedAndOrdered ==
    /\ [](/\ Running("migrate") => output_file.exists
          /\ (\E c \in Cands : task[c].pc # "none") =>
                Running("migrate") /\ output_file.exists
          /\ Running("clean") => mapping_file.exists
          /\ remove_calls # {} => Running("clean") /\ mapping_file.exists
          /\ Running("link") => mapping_file.exists
          /\ mklink_calls # {} => Running("link") /\ mapping_file.exists
          /\ ~Running("scan") => scanner.pc = "init"
          /\ ~Running("migrate") => MigratorUntouched
          /\ ~Running("clean") => cleaner.pc = "init"
          /\ ~Running("link") => linker.pc = "init")
    /\ [][(/\ worker.task_type = "all"
           /\ worker.pc # "finished"
           /\ worker'.stage # worker.stage \/ worker'.pc = "finished") =>
            /\ \/ worker.stage # "link" /\ worker'.stage = StageAfter(worker.stage)
               \/ /\ worker.stage = "link"
                  /\ worker'.stage = "link" /\ worker'.pc = "finished"
            /\ \/ worker.pc = "enter"
               \/ CASE worker.stage = "scan"    -> scanner.pc = "done"
                    [] worker.stage = "migrate" -> migrator.pc = "done"
                    [] worker.stage = "clean"   -> cleaner.pc = "done"
                    [] worker.stage = "link"    -> linker.pc = "done"]_vars
    /\ [][(worker.pc = "idle" /\ worker'.task_type = "all") =>
            worker'.stage = "scan" /\ worker'.pc = "enter"]_vars

\* C26's case: a task of type 'all' has come to its link stage and a link
\* was made, which takes a scan that wrote its result, a migration that
\* wrote the mapping, and a clean that removed a source.
C26_Witness ==
    /\ worker.task_type = "all"
    /\ Running("link")
    /\ mklink_calls # {}
    /\ \E c \in Cands : disk_src[c] = "link"

\* C27: in a session of stage runs, every step that removes a source path
\* is taken when the destination of that path holds every unit of the
\* source's data.
C27_DeleteOnlyWithCompleteCopy ==
    [][\A c \in Cands :
          (disk_src[c] = "present" /\ disk_src'[c] = "absent") => Complete(c)]_vars

\* C29: in a session of stage runs, every source path that was removed and
\* is not a link is a key of the mapping file.
C29_RemovedSourceStaysMapped ==
    \A c \in Cands :
        disk_src[c] = "absent" =>
            mapping_file.exists /\ c \in Range(mapping_file.path_mapping)

\* C31: clean() issues no delete call on a source path that is a link to
\* its existing destination, and does not record such an entry as failed.
C31_LinkedEntryUntouched ==
    /\ \A call \in remove_calls : ~(call.source = "link" /\ call.target_exists)
    /\ \A c \in Range(cleaner.failed_items) :
          ~(disk_src[c] = "link" /\ TargetExists(c))

\* C32: the second delete of a pass of the retry loop is reached only from
\* the PermissionError handler whose forced termination reported success,
\* with no wait made and nothing else changed in between; it is one delete
\* call, after which either the source is gone and the for loop moves on
\* without a wait, or the pass has failed, the attempt is counted, the wait
\* is made unless it was the last attempt, and the retry loop goes on.
C32_ImmediateRetryOnce ==
    /\ [][(cleaner'.pc = "second" /\ cleaner.pc # "second") =>
            /\ cleaner.pc = "locked"
            /\ cleaner' = [cleaner EXCEPT !.pc = "second"]
            /\ UNCHANGED <<diskVars, remove_calls>>]_vars
    /\ [][(cleaner.pc = "second" /\ cleaner'.pc # "second") =>
            \A c \in {CleanerEntry} :
               /\ remove_calls' = remove_calls \cup {RemoveCall(c)}
               /\ \/ /\ disk_src'[c] = "absent"
                     /\ cleaner'.pc = "loop"
                     /\ cleaner'.idx = cleaner.idx + 1
                     /\ cleaner'.failed_items = cleaner.failed_items
                     /\ cleaner'.sleeps = 0
                  \/ /\ disk_src' = disk_src
                     /\ cleaner'.pc = "retry"
                     /\ cleaner'.attempt = cleaner.attempt + 1
                     /\ cleaner'.sleeps =
                           IF cleaner.attempt < cleaner.retry_count - 1
                           THEN cleaner.sleeps + 1 ELSE cleaner.sleeps]_vars

\* C32's case: in the second pass of a retry loop of two attempts, after the
\* wait of the first pass, the delete hit a lock, the processes were ended
\* and the Cleaner is at its immediate second delete.
C32_Witness ==
    /\ cleaner.pc = "second"
    /\ cleaner.retry_count = MaxRetryCount
    /\ cleaner.attempt = 1
    /\ cleaner.sleeps = 1

\* the number of path components of path below the scan path of task k
LevelBelow(path, k) == Len(path) - Len(scanner.scan_paths[k].path)

\* C33: for a scan path with max_depth D, no collected directory entry lies
\* more than D levels below the scan path, its recorded depth being its
\* level; and once an uncancelled scan has returned, every directory D
\* levels below the scan path whose name is not excluded and whose size is
\* at least the threshold is collected with its measured size, and so is
\* every file D levels below it whose size is at least the threshold.
C33_CollectsDownToMaxDepth ==
    /\ \A e \in Range(scanner.large_folders) :
          scanner.scan_paths[e.found_by].max_depth # NoDepth =>
             /\ e.depth = LevelBelow(e.path, e.found_by)
             /\ e.depth <= scanner.scan_paths[e.found_by].max_depth
    /\ (scanner.pc = "done" /\ scanner.result = TRUE) =>
          \A k \in DOMAIN scanner.scan_paths :
             LET D == scanner.scan_paths[k].max_depth
                 at_D(p) == /\ StartsWith(p, scanner.scan_paths[k].path)
                            /\ LevelBelow(p, k) = D
             IN  (D # NoDepth /\ scanner.scan_paths[k].path \in TreeDirs) =>
                    /\ \A dir \in TreeDirs :
                          (/\ at_D(dir)
                           /\ dir[Len(dir)] \notin ExcludeFolders(k)
                           /\ GetFolderSize(dir) >= scanner.size_threshold)
                          => \E e \in Range(scanner.large_folders) :
                                /\ e.path = dir
                                /\ e.found_by = k
                                /\ e.depth = D
                                /\ e.size = GetFolderSize(dir)
                    /\ \A f \in TreeFiles :
                          (at_D(f) /\ FileSize(f[Len(f)]) >= scanner.size_threshold)
                          => \E e \in Range(scanner.large_files) :
                                /\ e.path = f
                                /\ e.found_by = k
                                /\ e.size = FileSize(f[Len(f)])

\* C33's case: an uncancelled scan of r with max_depth 2 has returned; it
\* collected the directory r/a/b and the file r/a/g, both two levels below
\* r, and the tree goes on below r/a/b.
C33_Witness ==
    /\ scanner.pc = "done" /\ scanner.result = TRUE
    /\ \E k \in DOMAIN scanner.scan_paths :
          /\ scanner.scan_paths[k].path = <<"r">>
          /\ scanner.scan_paths[k].max_depth = 2
          /\ \E e \in Range(scanner.large_folders) :
                e.found_by = k /\ e.path = <<"r", "a", "b">> /\ e.depth = 2
          /\ \E e \in Range(scanner.large_files) :
                e.found_by = k /\ e.path = <<"r", "a", "g">>
          /\ \A e \in Range(scanner.large_folders) :
                e.found_by = k => e.path # <<"r", "a", "b", "c">>

\* C34: no directory entry of the persisted scan result is an ancestor of
\* another entry, directory or file, of the same result.
C34_NoPersistedAncestor ==
    output_file.exists =>
        \A e \in PersistedFolders :
            \A other \in PersistedFolders \cup PersistedFiles :
                ~(StartsWith(other.path, e.path) /\ Len(other.path) > Len(e.path))

C36_FailureEndsAllRun ==
    worker.task_type = "all" =>
        /\ worker.failed => worker.pc # "running"
        /\ worker.pc = "finished" => worker.signal = ~worker.failed

\* the cancellation flag of the object of the stage the worker is in
StageIsRunning ==
    CASE worker.stage = "scan"    -> scanner.is_running
      [] worker.stage = "migrate" -> migrator.is_running
      [] worker.stage = "clean"   -> cleaner.is_running
      [] worker.stage = "link"    -> linker.is_running

\* C37: once WorkerThread.stop() was called, the cancellation flag of the
\* object of the stage that is executing is set.
C37_StopReachesStage ==
    (worker.pc = "running" /\ ~worker.is_running) => ~StageIsRunning

\* C38: at most one pool task is inside a with self.lock block at any time,
\* and every step that changes the Migrator's path mapping or its counter
\* of processed items is the step of the task inside the block, adding its
\* own entry and counting one.
C38_MappingWritesUnderLock ==
    /\ [](Cardinality({c \in Cands : task[c].pc = "locked"}) <= 1)
    /\ [][(\/ migrator'.path_mapping # migrator.path_mapping
           \/ migrator'.processed_folders # migrator.processed_folders) =>
            \E c \in Cands :
               /\ task[c].pc = "locked"
               /\ task'[c].pc = "done"
               /\ migrator'.path_mapping = Append(migrator.path_mapping, c)
               /\ migrator'.processed_folders = migrator.processed_folders + 1]_vars

\* C38's case: one task is inside the block while another one, at the end
\* of its transfer, waits for the lock.
C38_Witness ==
    \E c, other \in Cands :
        /\ c # other
        /\ task[c].pc = "locked"
        /\ task[other].pc = "finish"

\* C39: whenever migrate() has returned, on whatever path, the
\* ResourceMonitor's running flag is false.
C39_MonitorStoppedOnReturn ==
    migrator.pc = "done" => ~monitor.is_running

\* C39's case: migrate() has returned True from a run that sized its pool
\* from the running monitor and mapped a candidate; the monitor is stopped.
C39_Witness ==
    /\ migrator.pc = "done"
    /\ migrator.result = TRUE
    /\ migrator.total_folders > 0
    /\ migrator.path_mapping # <<>>
    /\ ~monitor.is_running

\* C40: no step of clean() or create_links() changes the mapping file.
C40_StagesKeepMappingFile ==
    [][mapping_file' = mapping_file]_vars

\* C40's case: clean() and create_links() both returned True for a mapping
\* file of two entries, every source removed and linked; the file still holds
\* the two entries.
C40_Witness ==
    /\ cleaner.pc = "done" /\ cleaner.result = TRUE
    /\ linker.pc = "done" /\ linker.result = TRUE
    /\ mapping_file.exists
    /\ Len(mapping_file.path_mapping) = 2
    /\ \A c \in Range(mapping_file.path_mapping) : disk_src[c] = "link"
    /\ remove_calls # {}
    /\ mklink_calls # {}

====
